---- MODULE Spec2Model ----
(***************************************************************************)
(* Rating and pairwise-outcome engine of policy-arena (Convex backend).    *)
(*                                                                         *)
(* Ratings are kept in hundredths of a point (1500.00 is 150000): every    *)
(* rating the engine stores went through Math.round(x * 100) / 100.        *)
(* The IEEE-754 arithmetic of computeEloUpdate is carried out in binary    *)
(* fixed point with 29 fractional bits, split into 15-bit limbs so that    *)
(* no intermediate product leaves the range of 32-bit integers.            *)
(***************************************************************************)
EXTENDS Integers, Sequences, FiniteSets, TLC

----------------------------------------------------------------------------
(* Rating math: convex/elo.ts                                              *)

K == 32

\* 1.0 in fixed point, and the limb base of the split multiplication
Scale == 2^29
Limb == 2^15

\* Pow10Table[i] = 10^(-2^(i-1) / 40000) in fixed point: the factors of
\* Math.pow(10, d / 400) for a rating difference d of 2^(i-1) hundredths
Pow10Table ==
  << 536840008, 536809106, 536747307, 536623731, 536376663, 535882870,
     534896645, 532929639, 529017300, 521278574, 506139083, 477166421,
     424101564, 335019337, 209059484, 81408523, 12344397, 283838 >>

Abs(x) == IF x < 0 THEN -x ELSE x

\* floor(a * b / Scale) for 0 <= a, b <= Scale
MulFix(a, b) ==
  LET ah == a \div Limb
      al == a % Limb
      bh == b \div Limb
      bl == b % Limb
      mid == ah * bl + al * bh + ((al * bl) \div Limb)
  IN  2 * ah * bh + (mid \div (Limb \div 2))

\* acc * 10^(-n / 40000) in fixed point, n >= 0 in hundredths of a point;
\* i is the position in Pow10Table of the lowest bit of n
RECURSIVE Pow10Neg(_, _, _)
Pow10Neg(n, i, acc) ==
  IF n = 0 THEN acc
  ELSE Pow10Neg(n \div 2, i + 1,
                IF n % 2 = 1 THEN MulFix(acc, Pow10Table[i]) ELSE acc)

\* floor(2^bits * rem / den) by long division, 0 < rem < den
RECURSIVE LongDiv(_, _, _, _)
LongDiv(rem, den, q, bits) ==
  IF bits = 0 THEN q
  ELSE IF 2 * rem >= den
       THEN LongDiv(2 * rem - den, den, 2 * q + 1, bits - 1)
       ELSE LongDiv(2 * rem, den, 2 * q, bits - 1)

\* expectedA = 1 / (1 + Math.pow(10, (ratingB - ratingA) / 400))
ExpectedScore(ratingA, ratingB) ==
  LET d == ratingB - ratingA
      y == Pow10Neg(Abs(d), 1, Scale)
      r == LongDiv(Scale, Scale + y, 0, 29)
  IN  IF d > 0 THEN Scale - r ELSE r

\* Math.floor in place of Math.round
RoundDelta_floor(x) ==
  LET xh == x \div Limb
      xl == x % Limb
      hi == (K * 100) * xh + (((K * 100) * xl) \div Limb)
  IN  hi \div (Limb \div 2)

\* Math.round(K * x * 100) for a fixed-point x in [-1, 1]:
\* Math.round is floor(v + 0.5), ties go up.
RoundDelta(x) ==
  LET xh == x \div Limb
      xl == x % Limb
      hi == (K * 100) * xh + (((K * 100) * xl) \div Limb) + (Limb \div 4)
  IN  hi \div (Limb \div 2)

\* scoreA is given in halves: 2 = A wins, 0 = A loses, 1 = draw
computeEloUpdate(ratingA, ratingB, scoreA) ==
  LET expectedA == ExpectedScore(ratingA, ratingB)
      expectedB == Scale - expectedA
      scoreB == 2 - scoreA
      newA == ratingA + RoundDelta(scoreA * (Scale \div 2) - expectedA)
      newB == ratingB + RoundDelta(scoreB * (Scale \div 2) - expectedB)
  IN  << newA, newB >>

----------------------------------------------------------------------------
(* Documents of the four collections: convex/schema.ts                     *)

\* elo: 1500 of a freshly inserted policy, in hundredths
SeedElo == 1500 * 100

\* an optional string field, or optional argument, that was not given
Absent == "undefined"

NewPolicy(p) ==
  [ name |-> p.name, model_id |-> p.model_id, model_url |-> p.model_url,
    training_url |-> p.training_url, environment |-> p.environment,
    elo |-> SeedElo, wins |-> 0, losses |-> 0, draws |-> 0 ]

EmptyDb ==
  [ policies |-> << >>, evalSessions |-> << >>,
    roundResults |-> << >>, eloHistory |-> << >> ]

\* ctx.db.get(id) on evalSessions: the positions holding that _id
SessionPos(sessions, id) == { i \in DOMAIN sessions : sessions[i]._id = id }

SessionExists(sessions, id) == SessionPos(sessions, id) # {}

GetSession(sessions, id) == sessions[CHOOSE i \in SessionPos(sessions, id) : TRUE]

\* query("roundResults").withIndex("by_session", eq(session_id)).collect():
\* the rows of one session in insertion order
ResultsOfSession(rows, id) == SelectSeq(rows, LAMBDA r : r.session_id = id)

----------------------------------------------------------------------------
(* modelIdToPolicy: a JavaScript Map, which iterates in the order in which *)
(* its keys were first set                                                 *)

MapPos(map, m) == { i \in DOMAIN map : map[i].model_id = m }

MapHas(map, m) == MapPos(map, m) # {}

MapGet(map, m) == map[CHOOSE i \in MapPos(map, m) : TRUE]._id

MapSet(map, m, id) ==
  IF MapHas(map, m)
  THEN [ i \in DOMAIN map |-> IF map[i].model_id = m
                              THEN [ model_id |-> m, _id |-> id ] ELSE map[i] ]
  ELSE Append(map, [ model_id |-> m, _id |-> id ])

----------------------------------------------------------------------------
(* Step 1 of submit and addRounds: register/upsert all policies            *)

\* withIndex("by_model_id", eq(model_id)).unique()
PolicyByModelId(pols, m) == { i \in DOMAIN pols : pols[i].model_id = m }

\* the patch of an existing policy also resets its rating
UpsertOne_reset(st, p) ==
  LET existing == PolicyByModelId(st.policies, p.model_id)
  IN  IF existing # {}
      THEN LET id == CHOOSE i \in existing : TRUE
           IN  [ policies |->
                   [ st.policies EXCEPT ![id].name = p.name,
                                        ![id].model_url = p.model_url,
                                        ![id].training_url = p.training_url,
                                        ![id].environment = p.environment,
                                        ![id].elo = SeedElo ],
                 modelIdToPolicy |-> MapSet(st.modelIdToPolicy, p.model_id, id) ]
      ELSE LET id == Len(st.policies) + 1
           IN  [ policies |-> Append(st.policies, NewPolicy(p)),
                 modelIdToPolicy |-> MapSet(st.modelIdToPolicy, p.model_id, id) ]

\* a policy is inserted for every declared policy, registered or not
UpsertOne_insert(st, p) ==
  LET id == Len(st.policies) + 1
  IN  [ policies |-> Append(st.policies, NewPolicy(p)),
        modelIdToPolicy |-> MapSet(st.modelIdToPolicy, p.model_id, id) ]

UpsertOne(st, p) ==
  LET existing == PolicyByModelId(st.policies, p.model_id)
  IN  IF existing # {}
      THEN LET id == CHOOSE i \in existing : TRUE
           IN  [ policies |->
                   [ st.policies EXCEPT ![id].name = p.name,
                                        ![id].model_url = p.model_url,
                                        ![id].training_url = p.training_url,
                                        ![id].environment = p.environment ],
                 modelIdToPolicy |-> MapSet(st.modelIdToPolicy, p.model_id, id) ]
      ELSE LET id == Len(st.policies) + 1
           IN  [ policies |-> Append(st.policies, NewPolicy(p)),
                 modelIdToPolicy |-> MapSet(st.modelIdToPolicy, p.model_id, id) ]

RECURSIVE UpsertPolicies(_, _)
UpsertPolicies(st, declared) ==
  IF declared = << >> THEN st
  ELSE UpsertPolicies(UpsertOne(st, Head(declared)), Tail(declared))

\* args.policies.map((p) => modelIdToPolicy.get(p.model_id)!)
PolicyIdsOf(map, declared) ==
  [ i \in DOMAIN declared |-> MapGet(map, declared[i].model_id) ]

----------------------------------------------------------------------------
(* Step 3 of submit and addRounds: insert round results                    *)

ResultRow(sessionId, round, result, map) ==
  [ session_id |-> sessionId, round_index |-> round.round_index,
    policy_id |-> MapGet(map, result.model_id), success |-> result.success,
    episode_index |-> result.episode_index, num_frames |-> result.num_frames ]

\* the results of all rounds in insertion order, each with its round
RECURSIVE FlattenRounds(_)
FlattenRounds(rounds) ==
  IF rounds = << >> THEN << >>
  ELSE [ i \in DOMAIN Head(rounds).results |->
           [ round |-> Head(rounds), result |-> Head(rounds).results[i] ] ]
       \o FlattenRounds(Tail(rounds))

\* A result whose model_id is not a key of modelIdToPolicy gives
\* policy_id: undefined, which the schema of roundResults rejects:
\* ctx.db.insert throws at that row, after the rows before it were written.
RECURSIVE InsertRoundResults(_, _, _, _)
InsertRoundResults(rows, sessionId, flat, map) ==
  IF flat = << >> THEN [ ok |-> TRUE, roundResults |-> rows ]
  ELSE IF ~MapHas(map, Head(flat).result.model_id)
       THEN [ ok |-> FALSE, roundResults |-> rows ]
       ELSE InsertRoundResults(
              Append(rows, ResultRow(sessionId, Head(flat).round,
                                     Head(flat).result, map)),
              sessionId, Tail(flat), map)

----------------------------------------------------------------------------
(* eloDeltas, winDeltas, lossDeltas, drawDeltas: four Maps over the same   *)
(* keys; keys lists them in the order in which they were first set.        *)
(* trace is an observation of the comparisons the call made, in order; it  *)
(* is not read by the handlers.                                            *)

Range(seq) == { seq[i] : i \in DOMAIN seq }

NoDeltas ==
  [ keys |-> << >>, elo |-> << >>, wins |-> << >>, losses |-> << >>,
    draws |-> << >>, trace |-> << >> ]

\* eloDeltas.set(id, 0); winDeltas.set(id, BigInt(0)); ...
ZeroDeltas(acc, id) ==
  LET ks == IF id \in Range(acc.keys) THEN acc.keys ELSE Append(acc.keys, id)
      Zero(f) == [ k \in Range(ks) |-> IF k = id THEN 0 ELSE f[k] ]
  IN  [ acc EXCEPT !.keys = ks, !.elo = Zero(acc.elo), !.wins = Zero(acc.wins),
                   !.losses = Zero(acc.losses), !.draws = Zero(acc.draws) ]

RECURSIVE ZeroAll(_, _)
ZeroAll(acc, ids) ==
  IF ids = << >> THEN acc ELSE ZeroAll(ZeroDeltas(acc, Head(ids)), Tail(ids))

\* if (!eloDeltas.has(res.policyId)) { eloDeltas.set(res.policyId, 0); ... }
RECURSIVE EnsureAll(_, _)
EnsureAll(acc, results) ==
  IF results = << >> THEN acc
  ELSE EnsureAll(IF Head(results).policyId \in Range(acc.keys)
                 THEN acc ELSE ZeroDeltas(acc, Head(results).policyId),
                 Tail(results))

\* what one comparison did to its two policies
Observe(pols, acc, next, a, b) ==
  [ a |-> a.policyId, b |-> b.policyId,
    successA |-> a.success, successB |-> b.success,
    ratingA |-> pols[a.policyId].elo + acc.elo[a.policyId],
    ratingB |-> pols[b.policyId].elo + acc.elo[b.policyId],
    afterA |-> pols[a.policyId].elo + next.elo[a.policyId],
    afterB |-> pols[b.policyId].elo + next.elo[b.policyId],
    winsA |-> next.wins[a.policyId] - acc.wins[a.policyId],
    winsB |-> next.wins[b.policyId] - acc.wins[b.policyId],
    lossesA |-> next.losses[a.policyId] - acc.losses[a.policyId],
    lossesB |-> next.losses[b.policyId] - acc.losses[b.policyId],
    drawsA |-> next.draws[a.policyId] - acc.draws[a.policyId],
    drawsB |-> next.draws[b.policyId] - acc.draws[b.policyId] ]

Observed(pols, acc, next, a, b) ==
  [ next EXCEPT !.trace = Append(acc.trace, Observe(pols, acc, next, a, b)) ]

\* one comparison of submit in which a win of a counts no loss for b
SubmitPair_noLoss(pols, acc, a, b) ==
  LET policyA == pols[a.policyId]
      policyB == pols[b.policyId]
      ratingA == policyA.elo + acc.elo[a.policyId]
      ratingB == policyB.elo + acc.elo[b.policyId]
  IN  IF a.success /\ ~b.success
      THEN LET new == computeEloUpdate(ratingA, ratingB, 2)
           IN  [ acc EXCEPT !.wins[a.policyId] = @ + 1,
                            !.elo[a.policyId] = new[1] - policyA.elo,
                            !.elo[b.policyId] = new[2] - policyB.elo ]
      ELSE IF ~a.success /\ b.success
      THEN LET new == computeEloUpdate(ratingA, ratingB, 0)
           IN  [ acc EXCEPT !.losses[a.policyId] = @ + 1,
                            !.wins[b.policyId] = @ + 1,
                            !.elo[a.policyId] = new[1] - policyA.elo,
                            !.elo[b.policyId] = new[2] - policyB.elo ]
      ELSE [ acc EXCEPT !.draws[a.policyId] = @ + 1,
                        !.draws[b.policyId] = @ + 1 ]

\* one comparison of submit
SubmitPair(pols, acc, a, b) ==
  LET policyA == pols[a.policyId]
      policyB == pols[b.policyId]
      ratingA == policyA.elo + acc.elo[a.policyId]
      ratingB == policyB.elo + acc.elo[b.policyId]
  IN  IF a.success /\ ~b.success
      THEN LET new == computeEloUpdate(ratingA, ratingB, 2)
           IN  [ acc EXCEPT !.wins[a.policyId] = @ + 1,
                            !.losses[b.policyId] = @ + 1,
                            !.elo[a.policyId] = new[1] - policyA.elo,
                            !.elo[b.policyId] = new[2] - policyB.elo ]
      ELSE IF ~a.success /\ b.success
      THEN LET new == computeEloUpdate(ratingA, ratingB, 0)
           IN  [ acc EXCEPT !.losses[a.policyId] = @ + 1,
                            !.wins[b.policyId] = @ + 1,
                            !.elo[a.policyId] = new[1] - policyA.elo,
                            !.elo[b.policyId] = new[2] - policyB.elo ]
      ELSE [ acc EXCEPT !.draws[a.policyId] = @ + 1,
                        !.draws[b.policyId] = @ + 1 ]

\* one comparison of addRounds
AddRoundsPair(pols, acc, a, b) ==
  LET policyA == pols[a.policyId]
      policyB == pols[b.policyId]
      ratingA == policyA.elo + acc.elo[a.policyId]
      ratingB == policyB.elo + acc.elo[b.policyId]
  IN  IF a.success /\ ~b.success
      THEN LET new == computeEloUpdate(ratingA, ratingB, 2)
           IN  [ acc EXCEPT !.wins[a.policyId] = @ + 1,
                            !.losses[b.policyId] = @ + 1,
                            !.elo[a.policyId] = new[1] - policyA.elo,
                            !.elo[b.policyId] = new[2] - policyB.elo ]
      ELSE IF ~a.success /\ b.success
      THEN LET new == computeEloUpdate(ratingA, ratingB, 0)
           IN  [ acc EXCEPT !.losses[a.policyId] = @ + 1,
                            !.wins[b.policyId] = @ + 1,
                            !.elo[a.policyId] = new[1] - policyA.elo,
                            !.elo[b.policyId] = new[2] - policyB.elo ]
      ELSE [ acc EXCEPT !.draws[a.policyId] = @ + 1,
                        !.draws[b.policyId] = @ + 1 ]

\* one comparison of the replay in deleteSession: scoreA is chosen first
\* and computeEloUpdate is applied in all three cases
ReplayPair(pols, acc, a, b) ==
  LET policyA == pols[a.policyId]
      policyB == pols[b.policyId]
      ratingA == policyA.elo + acc.elo[a.policyId]
      ratingB == policyB.elo + acc.elo[b.policyId]
      scoreA == IF a.success /\ ~b.success THEN 2
                ELSE IF ~a.success /\ b.success THEN 0 ELSE 1
      counted ==
        IF a.success /\ ~b.success
        THEN [ acc EXCEPT !.wins[a.policyId] = @ + 1,
                          !.losses[b.policyId] = @ + 1 ]
        ELSE IF ~a.success /\ b.success
        THEN [ acc EXCEPT !.losses[a.policyId] = @ + 1,
                          !.wins[b.policyId] = @ + 1 ]
        ELSE [ acc EXCEPT !.draws[a.policyId] = @ + 1,
                          !.draws[b.policyId] = @ + 1 ]
      new == computeEloUpdate(ratingA, ratingB, scoreA)
  IN  [ counted EXCEPT !.elo[a.policyId] = new[1] - policyA.elo,
                       !.elo[b.policyId] = new[2] - policyB.elo ]

ScorePair(path, pols, acc, a, b) ==
  Observed(pols, acc,
           CASE path = "submit" -> SubmitPair(pols, acc, a, b)
             [] path = "addRounds" -> AddRoundsPair(pols, acc, a, b)
             [] path = "replay" -> ReplayPair(pols, acc, a, b),
           a, b)

\* the loops with a round of one result compared with itself
RECURSIVE ScoreRound_single(_, _, _, _, _, _)
ScoreRound_single(path, pols, acc, roundResults, i, j) ==
  IF Len(roundResults) = 1 /\ i = 1
  THEN ScorePair(path, pols, acc, roundResults[1], roundResults[1])
  ELSE IF i > Len(roundResults) THEN acc
  ELSE IF j > Len(roundResults)
       THEN ScoreRound_single(path, pols, acc, roundResults, i + 1, i + 2)
       ELSE CHOOSE done \in
              { ScoreRound_single(path, pols, next, roundResults, i, j + 1) :
                  next \in { ScorePair(path, pols, acc,
                                       roundResults[i], roundResults[j]) } } :
              TRUE

\* for (i = 0; i < n; i++) for (j = i + 1; j < n; j++): the comparison of
\* (i, j) has been made, leaving next, when the loop goes on to (i, j + 1)
RECURSIVE ScoreRound(_, _, _, _, _, _)
ScoreRound(path, pols, acc, roundResults, i, j) ==
  IF i > Len(roundResults) THEN acc
  ELSE IF j > Len(roundResults)
       THEN ScoreRound(path, pols, acc, roundResults, i + 1, i + 2)
       ELSE CHOOSE done \in
              { ScoreRound(path, pols, next, roundResults, i, j + 1) :
                  next \in { ScorePair(path, pols, acc,
                                       roundResults[i], roundResults[j]) } } :
              TRUE

----------------------------------------------------------------------------
(* Outcome of a handler: the store as the handler left it when it returned *)
(* or threw, and the comparisons it made.                                  *)

Returned(db, trace) == [ ok |-> TRUE, error |-> "", db |-> db, trace |-> trace ]

Thrown(message, db) == [ ok |-> FALSE, error |-> message, db |-> db, trace |-> << >> ]

\* the writes of a handler stay when it throws
Mutation_partial(db, outcome) == outcome.db

\* mutation({ handler }): the writes of a handler are committed when it
\* returns, and discarded as a whole when it throws
Mutation(db, outcome) == IF outcome.ok THEN outcome.db ELSE db

\* round.results.map((r) => ({ policyId: modelIdToPolicy.get(r.model_id)!,
\*                             success: r.success }))
Resolve(results, map) ==
  [ i \in DOMAIN results |->
      [ policyId |-> MapGet(map, results[i].model_id),
        success |-> results[i].success ] ]

----------------------------------------------------------------------------
(* submit                                                                  *)

\* for (const round of args.rounds) { ... pairwise loop ... }
RECURSIVE SubmitRounds(_, _, _, _)
SubmitRounds(pols, acc, rounds, map) ==
  IF rounds = << >> THEN acc
  ELSE SubmitRounds(pols,
                    ScoreRound("submit", pols, acc,
                               Resolve(Head(rounds).results, map), 1, 2),
                    Tail(rounds), map)

\* the eloHistory entry gets the rating the policy had before the patch
RECURSIVE SubmitCommit_stale(_, _, _, _)
SubmitCommit_stale(st, acc, ids, sessionId) ==
  IF ids = << >> THEN st
  ELSE LET id == Head(ids)
           policy == st.policies[id]
           newElo == policy.elo + acc.elo[id]
       IN  SubmitCommit_stale(
             [ policies |->
                 [ st.policies EXCEPT ![id].elo = newElo,
                                      ![id].wins = policy.wins + acc.wins[id],
                                      ![id].losses = policy.losses + acc.losses[id],
                                      ![id].draws = policy.draws + acc.draws[id] ],
               eloHistory |->
                 Append(st.eloHistory,
                        [ policy_id |-> id, elo |-> policy.elo,
                          session_id |-> sessionId ]) ],
             acc, Tail(ids), sessionId)

\* for (const id of policyIds) { patch policy; insert eloHistory }
RECURSIVE SubmitCommit(_, _, _, _)
SubmitCommit(st, acc, ids, sessionId) ==
  IF ids = << >> THEN st
  ELSE LET id == Head(ids)
           policy == st.policies[id]
           newElo == policy.elo + acc.elo[id]
       IN  SubmitCommit(
             [ policies |->
                 [ st.policies EXCEPT ![id].elo = newElo,
                                      ![id].wins = policy.wins + acc.wins[id],
                                      ![id].losses = policy.losses + acc.losses[id],
                                      ![id].draws = policy.draws + acc.draws[id] ],
               eloHistory |->
                 Append(st.eloHistory,
                        [ policy_id |-> id, elo |-> newElo,
                          session_id |-> sessionId ]) ],
             acc, Tail(ids), sessionId)

\* steps 4 and 5: the deltas of the pairwise loop are applied to the
\* policies and one eloHistory entry is written per entry of policyIds
SubmitApply(stored, policyIds, sessionId, acc) ==
  LET done == SubmitCommit([ policies |-> stored.policies,
                             eloHistory |-> stored.eloHistory ],
                           acc, policyIds, sessionId)
  IN  Returned([ stored EXCEPT !.policies = done.policies,
                               !.eloHistory = done.eloHistory ],
               acc.trace)

\* steps 2 and 3 have run: the session and the rows up to the first
\* rejected one are written; a rollout session stops here
SubmitScore(db, args, sessionId, up, policyIds, ins) ==
  LET session == [ _id |-> sessionId, dataset_repo |-> args.dataset_repo,
                   num_rounds |-> Len(args.rounds), policy_ids |-> policyIds,
                   notes |-> args.notes, session_mode |-> args.session_mode ]
      stored == [ policies |-> up.policies,
                  evalSessions |-> Append(db.evalSessions, session),
                  roundResults |-> ins.roundResults,
                  eloHistory |-> db.eloHistory ]
      isRollout == args.session_mode = "rollout"
  IN  IF ~ins.ok THEN Thrown("roundResults.policy_id", stored)
      ELSE IF isRollout THEN Returned(stored, << >>)
      ELSE SubmitApply(stored, policyIds, sessionId,
                       SubmitRounds(up.policies, ZeroAll(NoDeltas, policyIds),
                                    args.rounds, up.modelIdToPolicy))

\* step 1 has run: up holds the policies table and modelIdToPolicy
SubmitInsert(db, args, sessionId, up) ==
  SubmitScore(db, args, sessionId, up,
              PolicyIdsOf(up.modelIdToPolicy, args.policies),
              InsertRoundResults(db.roundResults, sessionId,
                                 FlattenRounds(args.rounds), up.modelIdToPolicy))

SubmitHandler(db, args, sessionId) ==
  SubmitInsert(db, args, sessionId,
               UpsertPolicies([ policies |-> db.policies,
                                modelIdToPolicy |-> << >> ],
                              args.policies))

----------------------------------------------------------------------------
(* addRounds                                                               *)

\* every declared policy is pushed, on the roster already or not
RECURSIVE ExpandPolicyIds_all(_, _, _)
ExpandPolicyIds_all(updated, existing, map) ==
  IF map = << >> THEN updated
  ELSE ExpandPolicyIds_all(Append(updated, Head(map)._id), existing, Tail(map))

\* for (const [, id] of modelIdToPolicy)
\*   if (!existingPolicyIds.has(String(id))) updatedPolicyIds.push(id)
RECURSIVE ExpandPolicyIds(_, _, _)
ExpandPolicyIds(updated, existing, map) ==
  IF map = << >> THEN updated
  ELSE ExpandPolicyIds(IF Head(map)._id \in existing
                       THEN updated ELSE Append(updated, Head(map)._id),
                       existing, Tail(map))

\* for (const round of args.rounds) { ensure deltas; pairwise loop }
RECURSIVE AddRoundsRounds(_, _, _, _)
AddRoundsRounds(pols, acc, rounds, map) ==
  IF rounds = << >> THEN acc
  ELSE LET roundResults == Resolve(Head(rounds).results, map)
       IN  AddRoundsRounds(pols,
                           ScoreRound("addRounds", pols,
                                      EnsureAll(acc, roundResults),
                                      roundResults, 1, 2),
                           Tail(rounds), map)

\* historyEntries.find((e) => e.session_id === args.id) among the entries
\* of one policy: the first such entry, if any
\* the entry is looked up by policy alone
HistoryPos_anySession(history, policyId, sessionId) ==
  { i \in DOMAIN history : history[i].policy_id = policyId }

HistoryPos(history, policyId, sessionId) ==
  { i \in DOMAIN history : /\ history[i].policy_id = policyId
                           /\ history[i].session_id = sessionId }

Min(S) == CHOOSE x \in S : \A y \in S : x <= y

\* the deltas are applied to the seed rating instead of the stored one
RECURSIVE AddRoundsCommit_seed(_, _, _, _)
AddRoundsCommit_seed(st, acc, ids, sessionId) ==
  IF ids = << >> THEN st
  ELSE LET id == Head(ids)
           policy == st.policies[id]
           newElo == SeedElo + acc.elo[id]
           existing == HistoryPos(st.eloHistory, id, sessionId)
       IN  AddRoundsCommit_seed(
             [ policies |->
                 [ st.policies EXCEPT ![id].elo = newElo,
                                      ![id].wins = policy.wins + acc.wins[id],
                                      ![id].losses = policy.losses + acc.losses[id],
                                      ![id].draws = policy.draws + acc.draws[id] ],
               eloHistory |->
                 IF existing # {}
                 THEN [ st.eloHistory EXCEPT ![Min(existing)].elo = newElo ]
                 ELSE Append(st.eloHistory,
                             [ policy_id |-> id, elo |-> newElo,
                               session_id |-> sessionId ]) ],
             acc, Tail(ids), sessionId)

\* for (const [id, delta] of eloDeltas) { patch policy; patch or insert eloHistory }
RECURSIVE AddRoundsCommit(_, _, _, _)
AddRoundsCommit(st, acc, ids, sessionId) ==
  IF ids = << >> THEN st
  ELSE LET id == Head(ids)
           policy == st.policies[id]
           newElo == policy.elo + acc.elo[id]
           existing == HistoryPos(st.eloHistory, id, sessionId)
       IN  AddRoundsCommit(
             [ policies |->
                 [ st.policies EXCEPT ![id].elo = newElo,
                                      ![id].wins = policy.wins + acc.wins[id],
                                      ![id].losses = policy.losses + acc.losses[id],
                                      ![id].draws = policy.draws + acc.draws[id] ],
               eloHistory |->
                 IF existing # {}
                 THEN [ st.eloHistory EXCEPT ![Min(existing)].elo = newElo ]
                 ELSE Append(st.eloHistory,
                             [ policy_id |-> id, elo |-> newElo,
                               session_id |-> sessionId ]) ],
             acc, Tail(ids), sessionId)

\* notes: `Eval: ${updatedPolicyIds.length} policies, ${newNumRounds} rounds`
EvalNotes(numPolicies, numRounds) ==
  [ text |-> "Eval", policies |-> numPolicies, rounds |-> numRounds ]

\* the deltas of the new rounds are applied to the policies, and the
\* eloHistory entry of each touched policy is patched or inserted
AddRoundsApply(stored, sessionId, acc) ==
  LET done == AddRoundsCommit([ policies |-> stored.policies,
                                eloHistory |-> stored.eloHistory ],
                              acc, acc.keys, sessionId)
  IN  Returned([ stored EXCEPT !.policies = done.policies,
                               !.eloHistory = done.eloHistory ],
               acc.trace)

\* the rows up to the first rejected one are written, then the session is
\* patched; a rollout session stops here
AddRoundsScore(db, args, session, up, updatedPolicyIds, ins) ==
  LET newNumRounds == session.num_rounds + Len(args.rounds)
      patched == [ i \in DOMAIN db.evalSessions |->
                     IF db.evalSessions[i]._id = args.id
                     THEN [ db.evalSessions[i] EXCEPT
                              !.num_rounds = newNumRounds,
                              !.policy_ids = updatedPolicyIds,
                              !.notes = EvalNotes(Len(updatedPolicyIds),
                                                  newNumRounds) ]
                     ELSE db.evalSessions[i] ]
      stored == [ db EXCEPT !.policies = up.policies,
                            !.evalSessions = patched,
                            !.roundResults = ins.roundResults ]
  IN  IF ~ins.ok
      THEN Thrown("roundResults.policy_id",
                  [ db EXCEPT !.policies = up.policies,
                              !.roundResults = ins.roundResults ])
      ELSE IF session.session_mode = "rollout" THEN Returned(stored, << >>)
      ELSE AddRoundsApply(stored, args.id,
                          AddRoundsRounds(up.policies, NoDeltas, args.rounds,
                                          up.modelIdToPolicy))

\* the policies are upserted: up holds the policies table and modelIdToPolicy
AddRoundsInsert(db, args, session, up) ==
  AddRoundsScore(db, args, session, up,
                 ExpandPolicyIds(session.policy_ids, Range(session.policy_ids),
                                 up.modelIdToPolicy),
                 InsertRoundResults(db.roundResults, args.id,
                                    FlattenRounds(args.rounds),
                                    up.modelIdToPolicy))

\* the policies are upserted before the session is looked up
AddRoundsHandler_upsertFirst(db, args) ==
  IF ~SessionExists(db.evalSessions, args.id)
  THEN Thrown("Session not found",
              [ db EXCEPT !.policies =
                  UpsertPolicies([ policies |-> db.policies,
                                   modelIdToPolicy |-> << >> ],
                                 args.policies).policies ])
  ELSE AddRoundsInsert(db, args, GetSession(db.evalSessions, args.id),
                       UpsertPolicies([ policies |-> db.policies,
                                        modelIdToPolicy |-> << >> ],
                                      args.policies))

AddRoundsHandler(db, args) ==
  IF ~SessionExists(db.evalSessions, args.id)
  THEN Thrown("Session not found", db)
  ELSE AddRoundsInsert(db, args, GetSession(db.evalSessions, args.id),
                       UpsertPolicies([ policies |-> db.policies,
                                        modelIdToPolicy |-> << >> ],
                                      args.policies))

----------------------------------------------------------------------------
(* deleteSession                                                           *)

\* the reset leaves the policy as it is
ResetPolicy_kept(p) == p

\* ctx.db.patch(p._id, { elo: 1500, wins: 0, losses: 0, draws: 0 })
ResetPolicy(p) ==
  [ p EXCEPT !.elo = SeedElo, !.wins = 0, !.losses = 0, !.draws = 0 ]

\* Array.from(roundsMap.entries()).sort(([a], [b]) => a - b): the distinct
\* round_index values of the rows in ascending order
RECURSIVE SortedKeys(_)
SortedKeys(S) ==
  IF S = {} THEN << >> ELSE << Min(S) >> \o SortedKeys(S \ { Min(S) })

\* roundsMap.get(roundIdx): the rows of one round_index in row order
GroupOf(sessResults, roundIdx) ==
  LET rows == SelectSeq(sessResults, LAMBDA r : r.round_index = roundIdx)
  IN  [ i \in DOMAIN rows |->
          [ policyId |-> rows[i].policy_id, success |-> rows[i].success ] ]

\* for (const [, roundResults] of sortedRounds) { pairwise loop }
RECURSIVE ReplayRounds(_, _, _, _)
ReplayRounds(pols, acc, sessResults, sortedRounds) ==
  IF sortedRounds = << >> THEN acc
  ELSE ReplayRounds(pols,
                    ScoreRound("replay", pols, acc,
                               GroupOf(sessResults, Head(sortedRounds)), 1, 2),
                    sessResults, Tail(sortedRounds))

\* for (const id of sess.policy_ids) { patch policy; insert eloHistory }
RECURSIVE ReplayCommit(_, _, _, _)
ReplayCommit(st, acc, ids, sessionId) ==
  IF ids = << >> THEN st
  ELSE LET id == Head(ids)
           policy == st.policies[id]
           newElo == policy.elo + acc.elo[id]
       IN  ReplayCommit(
             [ st EXCEPT
                 !.policies =
                   [ st.policies EXCEPT ![id].elo = newElo,
                                        ![id].wins = policy.wins + acc.wins[id],
                                        ![id].losses = policy.losses + acc.losses[id],
                                        ![id].draws = policy.draws + acc.draws[id] ],
                 !.eloHistory =
                   Append(st.eloHistory,
                          [ policy_id |-> id, elo |-> newElo,
                            session_id |-> sessionId ]) ],
             acc, Tail(ids), sessionId)

\* the deltas of one replayed session are applied
ReplayApply(st, sess, acc) ==
  [ ReplayCommit(st, acc, sess.policy_ids, sess._id)
      EXCEPT !.trace = st.trace \o acc.trace ]

\* the rows of one session are grouped by round_index and scored
ReplayScore(st, sess, sessResults) ==
  ReplayApply(st, sess,
              ReplayRounds(st.policies, ZeroAll(NoDeltas, sess.policy_ids),
                           sessResults,
                           SortedKeys({ sessResults[i].round_index :
                                          i \in DOMAIN sessResults })))

\* rollout sessions are replayed like the others
ReplaySession_rated(st, sess, rows) ==
  ReplayScore(st, sess, ResultsOfSession(rows, sess._id))

\* the body of for (const sess of remainingSessions)
ReplaySession(st, sess, rows) ==
  IF sess.session_mode = "rollout" THEN st
  ELSE ReplayScore(st, sess, ResultsOfSession(rows, sess._id))

\* the remaining sessions replayed in descending creation order
RECURSIVE ReplayAll_desc(_, _, _)
ReplayAll_desc(st, remainingSessions, rows) ==
  IF remainingSessions = << >> THEN st
  ELSE CHOOSE done \in
         { ReplayAll_desc(next,
                          SubSeq(remainingSessions, 1,
                                 Len(remainingSessions) - 1), rows) :
             next \in { ReplaySession(
                          st, remainingSessions[Len(remainingSessions)],
                          rows) } } :
         TRUE

\* for (const sess of remainingSessions): the body has run for the first
\* session, leaving next, when the loop goes on to the sessions after it
RECURSIVE ReplayAll(_, _, _)
ReplayAll(st, remainingSessions, rows) ==
  IF remainingSessions = << >> THEN st
  ELSE CHOOSE done \in
         { ReplayAll(next, Tail(remainingSessions), rows) :
             next \in { ReplaySession(st, Head(remainingSessions), rows) } } :
         TRUE

\* the session, its rows and every eloHistory entry are deleted and every
\* policy is reset; done is the result of replaying the remaining sessions
DeleteSessionReplayed(remainingSessions, rows, done) ==
  Returned([ policies |-> done.policies, evalSessions |-> remainingSessions,
             roundResults |-> rows, eloHistory |-> done.eloHistory ],
           done.trace)

\* only the policies of the deleted session are reset
DeleteSessionReplay_resetsRoster(db, remainingSessions, rows) ==
  LET gone == UNION { Range(db.evalSessions[k].policy_ids) :
                        k \in { l \in DOMAIN db.evalSessions :
                                  \A m \in DOMAIN remainingSessions :
                                    remainingSessions[m]._id
                                      # db.evalSessions[l]._id } }
  IN  DeleteSessionReplayed(
        remainingSessions, rows,
        ReplayAll([ policies |-> [ i \in DOMAIN db.policies |->
                                     IF i \in gone
                                     THEN ResetPolicy(db.policies[i])
                                     ELSE db.policies[i] ],
                    eloHistory |-> << >>, trace |-> << >> ],
                  remainingSessions, rows))

\* deleteSession without the deletion of the eloHistory entries
DeleteSessionReplay_keepsHistory(db, remainingSessions, rows) ==
  DeleteSessionReplayed(
    remainingSessions, rows,
    ReplayAll([ policies |-> [ i \in DOMAIN db.policies |->
                                 ResetPolicy(db.policies[i]) ],
                eloHistory |-> db.eloHistory, trace |-> << >> ],
              remainingSessions, rows))

DeleteSessionReplay(db, remainingSessions, rows) ==
  DeleteSessionReplayed(
    remainingSessions, rows,
    ReplayAll([ policies |-> [ i \in DOMAIN db.policies |->
                                 ResetPolicy(db.policies[i]) ],
                eloHistory |-> << >>, trace |-> << >> ],
              remainingSessions, rows))

\* deleteSession without the deletion of the session's roundResults rows
DeleteSessionHandler_keepsRows(db, id) ==
  IF ~SessionExists(db.evalSessions, id)
  THEN Thrown("Session not found", db)
  ELSE DeleteSessionReplay(db,
                           SelectSeq(db.evalSessions, LAMBDA e : e._id # id),
                           db.roundResults)

DeleteSessionHandler(db, id) ==
  IF ~SessionExists(db.evalSessions, id)
  THEN Thrown("Session not found", db)
  ELSE DeleteSessionReplay(db,
                           SelectSeq(db.evalSessions, LAMBDA e : e._id # id),
                           SelectSeq(db.roundResults, LAMBDA r : r.session_id # id))

----------------------------------------------------------------------------
(* pairings.list, called without environment and policyId                  *)

\* the position of the pair (idA, idB) in pairStats, a Map in insertion order
StatsPos(stats, idA, idB) ==
  { k \in DOMAIN stats : stats[k].idA = idA /\ stats[k].idB = idB }

\* pairStats.set(key, { idA, idB, winsA: 0, winsB: 0, draws: 0, ... })
StatsWith(stats, idA, idB) ==
  IF StatsPos(stats, idA, idB) # {} THEN stats
  ELSE Append(stats, [ idA |-> idA, idB |-> idB, winsA |-> 0, winsB |-> 0,
                       draws |-> 0, sessionIds |-> {} ])

\* the outcome of a against b is added to the entry at position k
StatsCount(stats, k, sessionId, a, b, aIsFirst) ==
  [ stats EXCEPT
      ![k].sessionIds = @ \cup { sessionId },
      ![k].winsA = IF \/ (a.success /\ ~b.success /\ aIsFirst)
                      \/ (~a.success /\ b.success /\ ~aIsFirst)
                   THEN @ + 1 ELSE @,
      ![k].winsB = IF \/ (a.success /\ ~b.success /\ ~aIsFirst)
                      \/ (~a.success /\ b.success /\ aIsFirst)
                   THEN @ + 1 ELSE @,
      ![k].draws = IF a.success = b.success THEN @ + 1 ELSE @ ]

\* the canonical pair is (idA, idB), sorted by id
StatsPairAs(stats, sessionId, a, b, idA, idB) ==
  StatsCount(stats, CHOOSE k \in StatsPos(stats, idA, idB) : TRUE,
             sessionId, a, b, a.policy_id = idA)

\* one comparison of list
ListPair(stats, sessionId, a, b) ==
  IF a.policy_id < b.policy_id
  THEN StatsPairAs(StatsWith(stats, a.policy_id, b.policy_id), sessionId, a, b,
                   a.policy_id, b.policy_id)
  ELSE StatsPairAs(StatsWith(stats, b.policy_id, a.policy_id), sessionId, a, b,
                   b.policy_id, a.policy_id)

\* for (i = 0; i < n; i++) for (j = i + 1; j < n; j++)
RECURSIVE ListRound(_, _, _, _, _)
ListRound(stats, sessionId, roundResults, i, j) ==
  IF i > Len(roundResults) THEN stats
  ELSE IF j > Len(roundResults)
       THEN ListRound(stats, sessionId, roundResults, i + 1, i + 2)
       ELSE ListRound(ListPair(stats, sessionId, roundResults[i], roundResults[j]),
                      sessionId, roundResults, i, j + 1)

\* the keys of roundsMap in the order in which the rows first show them
RECURSIVE FirstSeen(_, _)
FirstSeen(results, seen) ==
  IF results = << >> THEN << >>
  ELSE IF Head(results).round_index \in seen
       THEN FirstSeen(Tail(results), seen)
       ELSE << Head(results).round_index >>
            \o FirstSeen(Tail(results), seen \cup { Head(results).round_index })

\* roundsMap.get(idx): { policy_id, success } of the rows of one round_index
ListGroup(results, idx) ==
  LET rows == SelectSeq(results, LAMBDA r : r.round_index = idx)
  IN  [ i \in DOMAIN rows |->
          [ policy_id |-> rows[i].policy_id, success |-> rows[i].success ] ]

\* for (const [, roundResults] of roundsMap)
RECURSIVE ListRounds(_, _, _, _)
ListRounds(stats, sessionId, results, keys) ==
  IF keys = << >> THEN stats
  ELSE ListRounds(ListRound(stats, sessionId, ListGroup(results, Head(keys)), 1, 2),
                  sessionId, results, Tail(keys))

\* for (const session of sessions): every session, rollouts included
RECURSIVE ListSessions(_, _, _)
ListSessions(stats, db, sessions) ==
  IF sessions = << >> THEN stats
  ELSE ListSessions(
         ListRounds(stats, Head(sessions)._id,
                    ResultsOfSession(db.roundResults, Head(sessions)._id),
                    FirstSeen(ResultsOfSession(db.roundResults,
                                               Head(sessions)._id), {})),
         db, Tail(sessions))

\* policyCache.get(id)
PolicyCached(db, id) ==
  [ _id |-> id, name |-> db.policies[id].name,
    environment |-> db.policies[id].environment, elo |-> db.policies[id].elo ]

\* result.push({ policyA, policyB, stats, sessionCount }); the win rates
\* are kept as the pair (wins, totalRounds) they are the quotient of
ListEntry(db, s) ==
  [ policyA |-> PolicyCached(db, s.idA), policyB |-> PolicyCached(db, s.idB),
    totalRounds |-> s.winsA + s.winsB + s.draws,
    winsA |-> s.winsA, winsB |-> s.winsB, draws |-> s.draws,
    winRateA |-> << s.winsA, s.winsA + s.winsB + s.draws >>,
    winRateB |-> << s.winsB, s.winsA + s.winsB + s.draws >>,
    sessionCount |-> Cardinality(s.sessionIds) ]

\* result.sort((a, b) => b.stats.totalRounds - a.stats.totalRounds): a
\* stable sort, entries with more rounds first
RECURSIVE SortByRounds(_)
SortByRounds(entries) ==
  IF entries = << >> THEN << >>
  ELSE SelectSeq(SortByRounds(Tail(entries)),
                 LAMBDA e : e.totalRounds > Head(entries).totalRounds)
       \o << Head(entries) >>
       \o SelectSeq(SortByRounds(Tail(entries)),
                    LAMBDA e : e.totalRounds <= Head(entries).totalRounds)

ListResult(db, stats) ==
  SortByRounds([ k \in DOMAIN stats |-> ListEntry(db, stats[k]) ])

list(db) == ListResult(db, ListSessions(<< >>, db, db.evalSessions))

----------------------------------------------------------------------------
(* policies.leaderboard, called without environment                        *)

\* null, and a number n, as the sequences << >> and << n >>
Null == << >>

\* results.filter((r) => r.success).length
Successes(results) == Len(SelectSeq(results, LAMBDA r : r.success))

\* the quotient successes / total without the test of total: 0 / 0
SuccessRate_unguarded(results) == << Successes(results), Len(results) >>

\* total > 0 ? successes / total : null; the quotient is kept as the pair
\* (successes, total)
SuccessRate(results) ==
  IF Len(results) > 0 THEN << Successes(results), Len(results) >> ELSE Null

\* reduce((sum, r) => sum + Number(r.num_frames!), 0)
RECURSIVE SumFrames(_)
SumFrames(results) ==
  IF results = << >> THEN 0
  ELSE Head(results).num_frames[1] + SumFrames(Tail(results))

\* Math.round(sum / n) for sum >= 0 and n > 0: halves go up
MathRound(sum, n) == (2 * sum + n) \div (2 * n)

AvgOf(successfulWithFrames) ==
  IF Len(successfulWithFrames) > 0
  THEN << MathRound(SumFrames(successfulWithFrames),
                    Len(successfulWithFrames)) >>
  ELSE Null

\* successfulWithFrames: r.success && r.num_frames != null
AvgSuccessSteps(results) ==
  AvgOf(SelectSeq(results, LAMBDA r : r.success /\ r.num_frames # << >>))

\* { ...policy, successRate, avgSuccessSteps }
EnrichedWith(policy, id, results) ==
  [ _id |-> id, name |-> policy.name, model_id |-> policy.model_id,
    model_url |-> policy.model_url, training_url |-> policy.training_url,
    environment |-> policy.environment, elo |-> policy.elo,
    wins |-> policy.wins, losses |-> policy.losses, draws |-> policy.draws,
    successRate |-> SuccessRate(results),
    avgSuccessSteps |-> AvgSuccessSteps(results) ]

\* the rows of by_policy(policy._id)
Enriched(db, id) ==
  EnrichedWith(db.policies[id], id,
               SelectSeq(db.roundResults, LAMBDA r : r.policy_id = id))

\* enriched.sort((a, b) => b.elo - a.elo): a stable sort, higher elo first
RECURSIVE SortByElo(_)
SortByElo(entries) ==
  IF entries = << >> THEN << >>
  ELSE SelectSeq(SortByElo(Tail(entries)),
                 LAMBDA e : e.elo > Head(entries).elo)
       \o << Head(entries) >>
       \o SelectSeq(SortByElo(Tail(entries)),
                    LAMBDA e : e.elo <= Head(entries).elo)

leaderboard(db) == SortByElo([ id \in DOMAIN db.policies |-> Enriched(db, id) ])

----------------------------------------------------------------------------
(* State                                                                   *)

VARIABLES
  policies,      \* the policies table; a policy's _id is its position
  evalSessions,  \* the evalSessions table in _creationTime order
  roundResults,  \* the roundResults table in _creationTime order
  eloHistory,    \* the eloHistory table in _creationTime order
  created,       \* number of evalSessions documents ever inserted
  calls,         \* number of calls made since the initial state
  submitted,     \* per live session, the arguments it was built from
  prev,          \* the four tables before the last call
  lastOp,        \* the last call, its arguments and its outcome
  reads          \* per view, what the reads since the last mutation returned

vars == << policies, evalSessions, roundResults, eloHistory, created, calls,
           submitted, prev, lastOp, reads >>

DB ==
  [ policies |-> policies, evalSessions |-> evalSessions,
    roundResults |-> roundResults, eloHistory |-> eloHistory ]

----------------------------------------------------------------------------
(* Bounds and the calls the clients make                                   *)

MaxCalls == 3
MaxSpread == 12

ModelIds == { "ma", "mb", "mc" }

NoNotes == [ text |-> Absent, policies |-> 0, rounds |-> 0 ]

\* a declared policy, in one of two spellings of its descriptive fields
Declared(m, v) ==
  [ name |-> IF v = 1 THEN "name-1" ELSE "name-2", model_id |-> m,
    model_url |-> IF v = 1 THEN Absent ELSE "model-url",
    training_url |-> IF v = 1 THEN Absent ELSE "training-url",
    environment |-> IF v = 1 THEN "env-1" ELSE "env-2" ]

Roster(ms, v) == [ i \in DOMAIN ms |-> Declared(ms[i], v) ]

\* num_frames is << >> when the optional field is not given
Ok(m, e) ==
  [ model_id |-> m, success |-> TRUE, episode_index |-> e, num_frames |-> << 40 + e >> ]

Fail(m, e) ==
  [ model_id |-> m, success |-> FALSE, episode_index |-> e, num_frames |-> << >> ]

Round(idx, results) == [ round_index |-> idx, results |-> results ]

SubmitArgs(ms, v, mode, rounds) ==
  [ dataset_repo |-> "repo", notes |-> NoNotes, session_mode |-> mode,
    policies |-> Roster(ms, v), rounds |-> rounds ]

SubmitCalls ==
  { \* a win, then a draw between policies that are no longer level
    SubmitArgs(<< "ma", "mb" >>, 1, Absent,
               << Round(0, << Ok("ma", 0), Fail("mb", 1) >>),
                  Round(1, << Ok("ma", 2), Ok("mb", 3) >>) >>),
    \* a three-way round, a round with one result and a round with none
    SubmitArgs(<< "ma", "mb", "mc" >>, 1, "manual",
               << Round(0, << Ok("ma", 0), Fail("mb", 1), Ok("mc", 2) >>),
                  Round(1, << Ok("mb", 3) >>), Round(2, << >>) >>),
    \* rounds given in descending round_index order
    SubmitArgs(<< "mb", "ma" >>, 2, "calibrate",
               << Round(1, << Ok("mb", 0), Fail("ma", 1) >>),
                  Round(0, << Fail("mb", 2), Fail("ma", 3) >>) >>),
    \* a rating-exempt session
    SubmitArgs(<< "ma", "mb" >>, 1, "rollout",
               << Round(0, << Ok("ma", 0), Fail("mb", 1) >>) >>),
    \* the same model_id declared twice
    SubmitArgs(<< "ma", "ma", "mb" >>, 1, Absent,
               << Round(0, << Fail("ma", 0), Ok("mb", 1) >>) >>),
    \* a result for a model_id that was not declared
    SubmitArgs(<< "ma", "mb" >>, 2, Absent,
               << Round(0, << Ok("ma", 0), Fail("mc", 1) >>) >>),
    \* two rounds with the same round_index
    SubmitArgs(<< "ma", "mb" >>, 1, Absent,
               << Round(0, << Ok("ma", 0), Fail("mb", 1) >>),
                  Round(0, << Fail("ma", 2), Ok("mb", 3) >>) >>),
    \* a declared policy without a result
    SubmitArgs(<< "mc", "mb", "ma" >>, 2, "pool-sample",
               << Round(0, << Fail("mb", 0), Ok("ma", 1) >>) >>) }

AddRoundsArgs(ms, v, rounds) == [ policies |-> Roster(ms, v), rounds |-> rounds ]

AddRoundsCalls ==
  { \* one more round under a fresh round_index, descriptive fields respelled
    AddRoundsArgs(<< "ma", "mb" >>, 2,
                  << Round(2, << Fail("ma", 4), Ok("mb", 5) >>) >>),
    \* a policy new to the session, under a round_index already used
    AddRoundsArgs(<< "mb", "mc" >>, 1,
                  << Round(0, << Ok("mb", 4), Ok("mc", 5) >>) >>),
    \* a result for a model_id that this call did not declare
    AddRoundsArgs(<< "ma" >>, 1,
                  << Round(3, << Ok("ma", 4), Fail("mb", 5) >>) >>),
    \* a round with a single result
    AddRoundsArgs(<< "ma", "mb" >>, 1,
                  << Round(4, << Ok("mb", 4) >>) >>),
    \* the same model_id declared twice, new to the session or not
    AddRoundsArgs(<< "mc", "mb", "mc" >>, 1,
                  << Round(5, << Fail("mc", 4), Fail("mb", 5) >>) >>) }

RatingSamples == { SeedElo + 1777 * k : k \in (0 - MaxSpread)..MaxSpread }

----------------------------------------------------------------------------
(* Specification                                                           *)

NoReads == [ leaderboard |-> << >>, list |-> << >> ]

NoCall ==
  [ op |-> "none", ok |-> TRUE, error |-> "", id |-> 0, args |-> << >>,
    trace |-> << >>, wrote |-> FALSE ]

Init ==
  /\ policies = << >>
  /\ evalSessions = << >>
  /\ roundResults = << >>
  /\ eloHistory = << >>
  /\ created = 0
  /\ calls = 0
  /\ submitted = << >>
  /\ prev = EmptyDb
  /\ lastOp = NoCall
  /\ reads = NoReads

Commit(db) ==
  /\ policies' = db.policies
  /\ evalSessions' = db.evalSessions
  /\ roundResults' = db.roundResults
  /\ eloHistory' = db.eloHistory

\* the arguments each live session was built from
Logged(op, id, args) ==
  CASE op = "submit" ->
         Append(submitted, [ _id |-> id, policies |-> args.policies,
                             rounds |-> args.rounds ])
    [] op = "addRounds" ->
         [ i \in DOMAIN submitted |->
             IF submitted[i]._id = id
             THEN [ submitted[i] EXCEPT !.policies = @ \o args.policies,
                                        !.rounds = @ \o args.rounds ]
             ELSE submitted[i] ]
    [] op = "deleteSession" -> SelectSeq(submitted, LAMBDA c : c._id # id)

\* one call of a mutation and its outcome
Called(op, id, args, outcome) ==
  /\ calls < MaxCalls
  /\ calls' = calls + 1
  /\ Commit(Mutation(DB, outcome))
  /\ prev' = DB
  /\ lastOp' = [ op |-> op, ok |-> outcome.ok, error |-> outcome.error,
                 id |-> id, args |-> args, trace |-> outcome.trace,
                 wrote |-> outcome.db # DB ]
  /\ created' = IF op = "submit" /\ outcome.ok THEN created + 1 ELSE created
  /\ submitted' = IF outcome.ok THEN Logged(op, id, args) ELSE submitted
  /\ reads' = NoReads

Submit(args) ==
  Called("submit", created + 1, args, SubmitHandler(DB, args, created + 1))

AddRounds(id, args) ==
  Called("addRounds", id, args,
         AddRoundsHandler(DB, [ id |-> id, policies |-> args.policies,
                                rounds |-> args.rounds ]))

DeleteSession(id) ==
  Called("deleteSession", id, << >>, DeleteSessionHandler(DB, id))

Next ==
  \/ \E args \in SubmitCalls : Submit(args)
  \/ \E id \in 1..(created + 1), args \in AddRoundsCalls : AddRounds(id, args)
  \/ \E id \in 1..(created + 1) : DeleteSession(id)

Spec == Init /\ [][Next]_vars

\* the store two successful submits leave, second after first
SeededBoth(first, second, o1, o2) ==
  /\ o1.ok
  /\ o2.ok
  /\ policies = o2.db.policies
  /\ evalSessions = o2.db.evalSessions
  /\ roundResults = o2.db.roundResults
  /\ eloHistory = o2.db.eloHistory
  /\ created = 2
  /\ calls = 0
  /\ submitted = << [ _id |-> 1, policies |-> first.policies,
                      rounds |-> first.rounds ],
                    [ _id |-> 2, policies |-> second.policies,
                      rounds |-> second.rounds ] >>
  /\ prev = o1.db
  /\ lastOp = [ op |-> "submit", ok |-> TRUE, error |-> "", id |-> 2,
                args |-> second, trace |-> o2.trace, wrote |-> o2.db # o1.db ]
  /\ reads = NoReads

SeededAfter(first, second, o1) ==
  SeededBoth(first, second, o1, SubmitHandler(Mutation(EmptyDb, o1), second, 2))

Seeded(first, second) ==
  SeededAfter(first, second, SubmitHandler(EmptyDb, first, 1))

\* the submits the two stored sessions come from
SeedFirst == { a \in SubmitCalls : a.session_mode \in { "manual", "calibrate" } }

SeedSecond ==
  { a \in SubmitCalls :
      a.session_mode \in { "calibrate", "pool-sample", "rollout" } }

\* the mutations, started from a store that holds two sessions
InitReplay ==
  \E first \in SeedFirst, second \in SeedSecond : Seeded(first, second)

SpecReplay == InitReplay /\ [][Next]_vars

\* a query: the tables are read and none is written; value is what the
\* query returns and tables what the database held when it was called
Queried(view, value) ==
  /\ calls < MaxCalls
  /\ calls' = calls + 1
  /\ reads' = [ reads EXCEPT ![view] = Append(@, [ value |-> value,
                                                   tables |-> DB ]) ]
  /\ UNCHANGED << policies, evalSessions, roundResults, eloHistory, created,
                  submitted, prev, lastOp >>

Leaderboard == Queried("leaderboard", leaderboard(DB))

List == Queried("list", list(DB))

NextViews ==
  \/ Next
  \/ Leaderboard
  \/ List

SpecViews == Init /\ [][NextViews]_vars

\* computeEloUpdate on its own: one call on sampled ratings
EloCall(ratingA, ratingB, scoreA) ==
  /\ lastOp.op = "none"
  /\ lastOp' = [ op |-> "computeEloUpdate", ratingA |-> ratingA,
                 ratingB |-> ratingB, scoreA |-> scoreA,
                 result |-> computeEloUpdate(ratingA, ratingB, scoreA) ]
  /\ UNCHANGED << policies, evalSessions, roundResults, eloHistory, created,
                  calls, submitted, prev, reads >>

NextElo ==
  \E ratingA \in RatingSamples, ratingB \in RatingSamples, scoreA \in 0..2 :
    EloCall(ratingA, ratingB, scoreA)

SpecElo == Init /\ [][NextElo]_vars

----------------------------------------------------------------------------
(* Properties                                                              *)

\* rating and counters of every policy
Standing(pols) ==
  [ i \in DOMAIN pols |->
      [ elo |-> pols[i].elo, wins |-> pols[i].wins,
        losses |-> pols[i].losses, draws |-> pols[i].draws ] ]

\* name, environment and the optional URL fields of every policy
Described(pols) ==
  [ i \in DOMAIN pols |->
      [ name |-> pols[i].name, model_id |-> pols[i].model_id,
        model_url |-> pols[i].model_url,
        training_url |-> pols[i].training_url,
        environment |-> pols[i].environment ] ]

\* the content of a live session as arguments of submit: its roster as the
\* policies table spells it, its mode, and all the rounds it was given
FreshArgs(db, c) ==
  [ dataset_repo |-> GetSession(db.evalSessions, c._id).dataset_repo,
    notes |-> GetSession(db.evalSessions, c._id).notes,
    session_mode |-> GetSession(db.evalSessions, c._id).session_mode,
    policies |-> [ i \in DOMAIN GetSession(db.evalSessions, c._id).policy_ids |->
                     Described(db.policies)[
                       GetSession(db.evalSessions, c._id).policy_ids[i]] ],
    rounds |-> c.rounds ]

\* submit of every logged session, in creation order
RECURSIVE FreshSubmits(_, _, _)
FreshSubmits(db, log, now) ==
  IF log = << >> THEN db
  ELSE FreshSubmits(Mutation(db, SubmitHandler(db, FreshArgs(now, Head(log)),
                                               Head(log)._id)),
                    Tail(log), now)

\* the policies of db at 1500 with zero counters, and nothing else
FreshStart(db) ==
  [ EmptyDb EXCEPT !.policies = [ i \in DOMAIN db.policies |->
                                    ResetPolicy(db.policies[i]) ] ]

\* C1: after a successful deleteSession, ratings, counters and the set of
\* eloHistory rows are what submit of the remaining sessions, in creation
\* order, gives from an all-1500, zero-counter start.
C1_DeleteEqualsFreshSubmit ==
  (lastOp.op = "deleteSession" /\ lastOp.ok) =>
    /\ Standing(policies) =
         Standing(FreshSubmits(FreshStart(DB), submitted, DB).policies)
    /\ Range(eloHistory) =
         Range(FreshSubmits(FreshStart(DB), submitted, DB).eloHistory)

\* C2: on every path that scores a pair (submit, addRounds, the replay of
\* deleteSession), a pair whose two results have the same success value
\* leaves both ratings as they were and adds exactly one draw to each of
\* the two policies.
C2_DrawNeutrality ==
  lastOp.op \in { "submit", "addRounds", "deleteSession" } =>
    \A k \in DOMAIN lastOp.trace :
      LET e == lastOp.trace[k]
      IN  e.successA = e.successB =>
            /\ e.afterA = e.ratingA
            /\ e.afterB = e.ratingB
            /\ e.drawsA = 1
            /\ e.drawsB = 1

\* C3: there is at most one eloHistory entry per (policy, session), and
\* every policy with a result in a session that is not a rollout has an
\* entry for it.
C3_HistoryUniqueness ==
  /\ \A i, j \in DOMAIN eloHistory :
       (/\ eloHistory[i].policy_id = eloHistory[j].policy_id
        /\ eloHistory[i].session_id = eloHistory[j].session_id) => i = j
  /\ \A s \in DOMAIN evalSessions :
       evalSessions[s].session_mode # "rollout" =>
         \A r \in Range(ResultsOfSession(roundResults, evalSessions[s]._id)) :
           HistoryPos(eloHistory, r.policy_id, evalSessions[s]._id) # {}

\* the sessions of db that are rollouts
Rollouts(db) ==
  { e._id : e \in { x \in Range(db.evalSessions) : x.session_mode = "rollout" } }

\* db without its rollout sessions and their rows, except session keep
WithoutRollouts(db, keep) ==
  [ db EXCEPT
      !.evalSessions =
        SelectSeq(db.evalSessions,
                  LAMBDA e : e._id = keep \/ e.session_mode # "rollout"),
      !.roundResults =
        SelectSeq(db.roundResults,
                  LAMBDA r : r.session_id = keep
                             \/ r.session_id \notin Rollouts(db)) ]

\* an ingestion that stored its rows and touched no rating, counter or entry
StoredOnly(sessionId, rounds) ==
  /\ eloHistory = prev.eloHistory
  /\ \A i \in DOMAIN prev.policies :
       Standing(policies)[i] = Standing(prev.policies)[i]
  /\ \A i \in DOMAIN policies \ DOMAIN prev.policies :
       Standing(policies)[i] =
         [ elo |-> SeedElo, wins |-> 0, losses |-> 0, draws |-> 0 ]
  /\ Len(ResultsOfSession(roundResults, sessionId)) =
       Len(ResultsOfSession(prev.roundResults, sessionId))
         + Len(FlattenRounds(rounds))
  /\ lastOp.trace = << >>

\* C4: submit and addRounds on a rollout session store its rows and change
\* no rating, counter or eloHistory entry; the replay of deleteSession
\* leaves the rows of the remaining rollout sessions as they were, and makes
\* the comparisons and ends with the ratings and counters it would were
\* those sessions not in the store; no eloHistory entry ever refers to a
\* rollout session.
C4_RolloutExempt ==
  /\ (lastOp.op = "submit" /\ lastOp.ok
      /\ lastOp.args.session_mode = "rollout")
       => StoredOnly(lastOp.id, lastOp.args.rounds)
  /\ (lastOp.op = "addRounds" /\ lastOp.ok
      /\ lastOp.id \in Rollouts(prev))
       => StoredOnly(lastOp.id, lastOp.args.rounds)
  /\ (lastOp.op = "deleteSession" /\ lastOp.ok) =>
       /\ \A s \in Rollouts(DB) :
            ResultsOfSession(roundResults, s) =
              ResultsOfSession(prev.roundResults, s)
       /\ Standing(policies) =
            Standing(DeleteSessionHandler(WithoutRollouts(prev, lastOp.id),
                                          lastOp.id).db.policies)
       /\ lastOp.trace =
            DeleteSessionHandler(WithoutRollouts(prev, lastOp.id),
                                 lastOp.id).trace
  /\ \A k \in DOMAIN eloHistory : eloHistory[k].session_id \notin Rollouts(DB)

\* the deletion of a rated session after which a rollout session with rows
\* of a decided pair is replayed
C4_Witness ==
  /\ lastOp.op = "deleteSession"
  /\ lastOp.ok
  /\ prev.eloHistory # << >>
  /\ \E s \in Rollouts(DB) :
       \E q, r \in Range(ResultsOfSession(roundResults, s)) :
         q.round_index = r.round_index /\ q.success /\ ~r.success

\* C5: computeEloUpdate is zero-sum after rounding to hundredths, and from
\* 1500 against 1500 a win of A puts A above 1500 and B below it.
C5_ZeroSum ==
  lastOp.op = "computeEloUpdate" =>
    /\ lastOp.result[1] - lastOp.ratingA = 0 - (lastOp.result[2] - lastOp.ratingB)
    /\ (lastOp.ratingA = SeedElo /\ lastOp.ratingB = SeedElo /\ lastOp.scoreA = 2)
         => (lastOp.result[1] > SeedElo /\ lastOp.result[2] < SeedElo)

C5_Witness ==
  /\ lastOp.op = "computeEloUpdate"
  /\ lastOp.ratingA = SeedElo
  /\ lastOp.ratingB = SeedElo
  /\ lastOp.scoreA = 2
  /\ lastOp.result = << SeedElo + 1600, SeedElo - 1600 >>

RECURSIVE SumElo(_)
SumElo(pols) == IF pols = << >> THEN 0 ELSE Head(pols).elo + SumElo(Tail(pols))

\* C6: the ratings of all policies sum to 1500 times the number of policies.
C6_RatingConservation == SumElo(policies) = SeedElo * Len(policies)

\* C7: addRounds or deleteSession on a session id that does not exist fails
\* with "Session not found", had written nothing when it failed, and leaves
\* the four collections as they were.
C7_NotFound ==
  (/\ lastOp.op \in { "addRounds", "deleteSession" }
   /\ ~SessionExists(prev.evalSessions, lastOp.id)) =>
    /\ ~lastOp.ok
    /\ lastOp.error = "Session not found"
    /\ ~lastOp.wrote
    /\ DB = prev

\* an addRounds on a missing session that declares a policy the store does
\* not hold yet
C7_Witness ==
  /\ lastOp.op = "addRounds"
  /\ ~SessionExists(prev.evalSessions, lastOp.id)
  /\ ~lastOp.ok
  /\ prev.policies # << >>
  /\ \E k \in DOMAIN lastOp.args.policies :
       PolicyByModelId(prev.policies, lastOp.args.policies[k].model_id) = {}

C9_NumRounds ==
  \A s \in DOMAIN evalSessions :
    evalSessions[s].num_rounds =
      Cardinality({ r.round_index :
                      r \in Range(ResultsOfSession(roundResults,
                                                   evalSessions[s]._id)) })

\* the policies table as the upsert step of the last call left it
Upserted ==
  UpsertPolicies([ policies |-> prev.policies, modelIdToPolicy |-> << >> ],
                 lastOp.args.policies).policies

\* C10: the upsert step of submit and addRounds keeps the position, model_id,
\* rating and counters of every policy that was there, patches name,
\* environment and the URL fields of the declared ones only, and appends a
\* policy with rating 1500 and zero counters for each model_id that was not
\* there; the rest of the call changes no descriptive field.
C10_UpsertFrame ==
  (lastOp.op \in { "submit", "addRounds" } /\ lastOp.ok) =>
    /\ Len(Upserted) >= Len(prev.policies)
    /\ \A i \in DOMAIN prev.policies :
         /\ Upserted[i].model_id = prev.policies[i].model_id
         /\ Standing(Upserted)[i] = Standing(prev.policies)[i]
         /\ IF \E k \in DOMAIN lastOp.args.policies :
                 lastOp.args.policies[k].model_id = prev.policies[i].model_id
            THEN Described(Upserted)[i] \in Range(lastOp.args.policies)
            ELSE Upserted[i] = prev.policies[i]
    /\ \A i \in DOMAIN Upserted \ DOMAIN prev.policies :
         /\ Standing(Upserted)[i] =
              [ elo |-> SeedElo, wins |-> 0, losses |-> 0, draws |-> 0 ]
         /\ Described(Upserted)[i] \in Range(lastOp.args.policies)
         /\ PolicyByModelId(prev.policies, Upserted[i].model_id) = {}
    /\ Described(policies) = Described(Upserted)

\* a call that respelled a policy whose rating had moved and added a new one
C10_Witness ==
  /\ lastOp.op \in { "submit", "addRounds" }
  /\ lastOp.ok
  /\ Len(policies) > Len(prev.policies)
  /\ \E i \in DOMAIN prev.policies :
       /\ Described(policies)[i] # Described(prev.policies)[i]
       /\ prev.policies[i].elo # SeedElo

\* the policies on the roster of a session of db that is not a rollout
Rated(db) ==
  UNION { Range(e.policy_ids) :
            e \in { x \in Range(db.evalSessions) : x.session_mode # "rollout" } }

\* C11: no call removes a policy or moves it to another model_id, and after
\* a deleteSession every policy on the roster of no remaining session that
\* is not a rollout has rating 1500, zero counters and no eloHistory entry.
C11_PoliciesKept ==
  /\ Len(policies) >= Len(prev.policies)
  /\ \A i \in DOMAIN prev.policies :
       policies[i].model_id = prev.policies[i].model_id
  /\ (lastOp.op = "deleteSession" /\ lastOp.ok) =>
       /\ Described(policies) = Described(prev.policies)
       /\ \A i \in DOMAIN policies \ Rated(DB) :
            /\ Standing(policies)[i] =
                 [ elo |-> SeedElo, wins |-> 0, losses |-> 0, draws |-> 0 ]
            /\ \A k \in DOMAIN eloHistory : eloHistory[k].policy_id # i

\* a deletion that leaves a rated session and takes the only session of a
\* policy whose rating had moved
C11_Witness ==
  /\ lastOp.op = "deleteSession"
  /\ lastOp.ok
  /\ eloHistory # << >>
  /\ \E i \in DOMAIN policies \ Rated(DB) : prev.policies[i].elo # SeedElo

\* the results of a round of a call as (policyId, success), resolved by
\* model_id against the policies table pols
ResolvedBy(pols, results) ==
  [ i \in DOMAIN results |->
      [ policyId |-> CHOOSE p \in DOMAIN pols :
                       pols[p].model_id = results[i].model_id,
        success |-> results[i].success ] ]

\* the pairs (i, j), i < j, of one round, in the order of the two loops
RECURSIVE PairsOf(_, _, _)
PairsOf(rr, i, j) ==
  IF i > Len(rr) THEN << >>
  ELSE IF j > Len(rr) THEN PairsOf(rr, i + 1, i + 2)
  ELSE << [ a |-> rr[i].policyId, b |-> rr[j].policyId,
            successA |-> rr[i].success, successB |-> rr[j].success ] >>
       \o PairsOf(rr, i, j + 1)

\* what the results of policy p gain in one round: a win per failing
\* opponent of a succeeding result, a loss per succeeding opponent of a
\* failing one, a draw per opponent with the same success value
GainOf(rr, p) ==
  [ wins |-> Cardinality({ ij \in (DOMAIN rr) \X (DOMAIN rr) :
                             /\ ij[1] # ij[2] /\ rr[ij[1]].policyId = p
                             /\ rr[ij[1]].success /\ ~rr[ij[2]].success }),
    losses |-> Cardinality({ ij \in (DOMAIN rr) \X (DOMAIN rr) :
                               /\ ij[1] # ij[2] /\ rr[ij[1]].policyId = p
                               /\ ~rr[ij[1]].success /\ rr[ij[2]].success }),
    draws |-> Cardinality({ ij \in (DOMAIN rr) \X (DOMAIN rr) :
                              /\ ij[1] # ij[2] /\ rr[ij[1]].policyId = p
                              /\ rr[ij[1]].success = rr[ij[2]].success }) ]

\* the pairs of a sequence of rounds, and what policy p gains in them
RECURSIVE PairsOfRounds(_)
PairsOfRounds(rrs) ==
  IF rrs = << >> THEN << >>
  ELSE PairsOf(Head(rrs), 1, 2) \o PairsOfRounds(Tail(rrs))

RECURSIVE GainOfRounds(_, _)
GainOfRounds(rrs, p) ==
  IF rrs = << >> THEN [ wins |-> 0, losses |-> 0, draws |-> 0 ]
  ELSE [ wins |-> GainOf(Head(rrs), p).wins + GainOfRounds(Tail(rrs), p).wins,
         losses |-> GainOf(Head(rrs), p).losses
                      + GainOfRounds(Tail(rrs), p).losses,
         draws |-> GainOf(Head(rrs), p).draws
                     + GainOfRounds(Tail(rrs), p).draws ]

\* the rounds of the last submit or addRounds, resolved
RoundsGiven ==
  [ k \in DOMAIN lastOp.args.rounds |->
      ResolvedBy(policies, lastOp.args.rounds[k].results) ]

\* the rounds the replay finds in db: per session that is not a rollout, in
\* creation order, the rows of each round_index in ascending order
RECURSIVE RoundsStored(_, _)
RoundsStored(db, sessions) ==
  IF sessions = << >> THEN << >>
  ELSE (IF Head(sessions).session_mode = "rollout" THEN << >>
        ELSE [ k \in DOMAIN SortedKeys({ r.round_index :
                 r \in Range(ResultsOfSession(db.roundResults,
                                              Head(sessions)._id)) }) |->
                 GroupOf(ResultsOfSession(db.roundResults, Head(sessions)._id),
                         SortedKeys({ r.round_index :
                           r \in Range(ResultsOfSession(db.roundResults,
                                         Head(sessions)._id)) })[k]) ])
       \o RoundsStored(db, Tail(sessions))

\* the pairs a call compared, in the order it compared them
Compared ==
  [ k \in DOMAIN lastOp.trace |->
      [ a |-> lastOp.trace[k].a, b |-> lastOp.trace[k].b,
        successA |-> lastOp.trace[k].successA,
        successB |-> lastOp.trace[k].successB ] ]

\* the counters of policy i in a policies table, zero if it is not there
CountersIn(pols, i) ==
  IF i \in DOMAIN pols
  THEN [ wins |-> pols[i].wins, losses |-> pols[i].losses,
         draws |-> pols[i].draws ]
  ELSE [ wins |-> 0, losses |-> 0, draws |-> 0 ]

\* the counters of policy i are those of base and what it gains in rrs
Gained(base, rrs, i) ==
  /\ policies[i].wins = base.wins + GainOfRounds(rrs, i).wins
  /\ policies[i].losses = base.losses + GainOfRounds(rrs, i).losses
  /\ policies[i].draws = base.draws + GainOfRounds(rrs, i).draws

\* C12: submit, addRounds and the replay compare every pair (i, j), i < j,
\* of every round once, and every policy gains one win per failing opponent
\* of each of its succeeding results, one loss per succeeding opponent of
\* each of its failing results and one draw per opponent with the same
\* success value: n - 1 increments per result.
C12_ExhaustivePairing ==
  /\ (/\ lastOp.op \in { "submit", "addRounds" }
      /\ lastOp.ok
      /\ lastOp.id \notin Rollouts(DB)) =>
       /\ Compared = PairsOfRounds(RoundsGiven)
       /\ \A i \in DOMAIN policies :
            Gained(CountersIn(prev.policies, i), RoundsGiven, i)
  /\ (lastOp.op = "deleteSession" /\ lastOp.ok) =>
       /\ Compared = PairsOfRounds(RoundsStored(DB, evalSessions))
       /\ \A i \in DOMAIN policies :
            Gained(CountersIn(<< >>, i), RoundsStored(DB, evalSessions), i)

\* the store after deleteSession of the session the last call submitted,
\* and after a submit of the same arguments as a new session on top of it
Deleted == Mutation(DB, DeleteSessionHandler(DB, lastOp.id))

Resubmitted(db) == Mutation(db, SubmitHandler(db, lastOp.args, created + 1))

\* C13: right after a submit of session S, deleteSession(S) followed by a
\* submit of the same policies and rounds as a new session ends with the
\* rating every policy of S has now.
C13_ResubmitConserves ==
  (lastOp.op = "submit" /\ lastOp.ok) =>
    \A deleted \in { Deleted } :
      \A resubmitted \in { Resubmitted(deleted) } :
        \A i \in Range(GetSession(evalSessions, lastOp.id).policy_ids) :
          resubmitted.policies[i].elo = policies[i].elo

\* the rating of policy i before the last call, 1500 if it was not there
RatingBefore(i) ==
  IF i \in DOMAIN prev.policies THEN prev.policies[i].elo ELSE SeedElo

\* the rating of policy i after the comparisons of trace, each of which
\* has to read the rating the one before left, starting from r; -1 if one
\* of them read another rating
RECURSIVE RatingWalk(_, _, _)
RatingWalk(trace, i, r) ==
  IF trace = << >> THEN r
  ELSE IF Head(trace).a = i
       THEN IF Head(trace).ratingA = r
            THEN RatingWalk(Tail(trace), i, Head(trace).afterA) ELSE 0 - 1
       ELSE IF Head(trace).b = i
            THEN IF Head(trace).ratingB = r
                 THEN RatingWalk(Tail(trace), i, Head(trace).afterB) ELSE 0 - 1
            ELSE RatingWalk(Tail(trace), i, r)

\* a comparison of submit or addRounds moved the two ratings as its outcome
\* says: by computeEloUpdate if one result succeeded and the other failed,
\* not at all otherwise
Scored(e) ==
  << e.afterA, e.afterB >> =
    IF e.successA /\ ~e.successB THEN computeEloUpdate(e.ratingA, e.ratingB, 2)
    ELSE IF ~e.successA /\ e.successB
         THEN computeEloUpdate(e.ratingA, e.ratingB, 0)
         ELSE << e.ratingA, e.ratingB >>

\* the rows a call has to insert for its rounds
RowsGiven ==
  [ k \in DOMAIN FlattenRounds(lastOp.args.rounds) |->
      [ session_id |-> lastOp.id,
        round_index |-> FlattenRounds(lastOp.args.rounds)[k].round.round_index,
        policy_id |->
          CHOOSE p \in DOMAIN policies : policies[p].model_id =
            FlattenRounds(lastOp.args.rounds)[k].result.model_id,
        success |-> FlattenRounds(lastOp.args.rounds)[k].result.success,
        episode_index |->
          FlattenRounds(lastOp.args.rounds)[k].result.episode_index,
        num_frames |-> FlattenRounds(lastOp.args.rounds)[k].result.num_frames ] ]

\* C14: addRounds leaves the stored rows as they are and appends the rows
\* of the new rounds; it compares the pairs of the new rounds only, and
\* every policy ends with its stored counters plus what it gains in the new
\* rounds and with the rating these comparisons give, the first of them
\* reading its stored rating.
C14_AddRoundsScoresNewRounds ==
  (lastOp.op = "addRounds" /\ lastOp.ok) =>
    /\ roundResults = prev.roundResults \o RowsGiven
    /\ Compared = IF lastOp.id \in Rollouts(DB) THEN << >>
                  ELSE PairsOfRounds(RoundsGiven)
    /\ \A k \in DOMAIN lastOp.trace : Scored(lastOp.trace[k])
    /\ \A i \in DOMAIN policies :
         /\ policies[i].elo = RatingWalk(lastOp.trace, i, RatingBefore(i))
         /\ Gained(CountersIn(prev.policies, i),
                   IF lastOp.id \in Rollouts(DB) THEN << >> ELSE RoundsGiven, i)

\* an addRounds with a decided pair between policies whose ratings had
\* moved, into a session that had rows
C14_Witness ==
  /\ lastOp.op = "addRounds"
  /\ lastOp.ok
  /\ ResultsOfSession(prev.roundResults, lastOp.id) # << >>
  /\ \E k \in DOMAIN lastOp.trace :
       /\ lastOp.trace[k].successA # lastOp.trace[k].successB
       /\ lastOp.trace[k].ratingA # SeedElo
       /\ lastOp.trace[k].ratingB # SeedElo

\* the ids of the policies the last call declared, in the order in which
\* their model_ids were first declared
RECURSIVE DeclaredIds(_, _)
DeclaredIds(declared, seen) ==
  IF declared = << >> THEN << >>
  ELSE IF Head(declared).model_id \in seen
       THEN DeclaredIds(Tail(declared), seen)
       ELSE << CHOOSE p \in DOMAIN policies :
                 policies[p].model_id = Head(declared).model_id >>
            \o DeclaredIds(Tail(declared), seen \cup { Head(declared).model_id })

\* C15: after addRounds the policy_ids of the session is the list it had,
\* followed by the declared policies that were not in it, each once, in the
\* order in which they were declared.
C15_RosterWidening ==
  (lastOp.op = "addRounds" /\ lastOp.ok) =>
    GetSession(evalSessions, lastOp.id).policy_ids =
      GetSession(prev.evalSessions, lastOp.id).policy_ids
        \o SelectSeq(DeclaredIds(lastOp.args.policies, {}),
                     LAMBDA p : p \notin Range(GetSession(prev.evalSessions,
                                                          lastOp.id).policy_ids))

\* an addRounds that declared a policy of the session and one new to it
C15_Witness ==
  /\ lastOp.op = "addRounds"
  /\ lastOp.ok
  /\ Len(GetSession(evalSessions, lastOp.id).policy_ids) >
       Len(GetSession(prev.evalSessions, lastOp.id).policy_ids)
  /\ \E k \in DOMAIN lastOp.args.policies :
       PolicyByModelId(policies, lastOp.args.policies[k].model_id)
         \subseteq Range(GetSession(prev.evalSessions, lastOp.id).policy_ids)

----------------------------------------------------------------------------
(* C16: counters and the pairwise view                                     *)

\* what the entries of list(DB) give policy i: its wins, losses and draws
\* summed over the pairs it is a side of
ListWins(view, i) ==
  LET RECURSIVE Sum(_)
      Sum(k) == IF k = 0 THEN 0
                ELSE Sum(k - 1)
                     + (IF view[k].policyA._id = i THEN view[k].winsA ELSE 0)
                     + (IF view[k].policyB._id = i /\ view[k].policyA._id # i
                        THEN view[k].winsB ELSE 0)
  IN  Sum(Len(view))

ListLosses(view, i) ==
  LET RECURSIVE Sum(_)
      Sum(k) == IF k = 0 THEN 0
                ELSE Sum(k - 1)
                     + (IF view[k].policyA._id = i THEN view[k].winsB ELSE 0)
                     + (IF view[k].policyB._id = i /\ view[k].policyA._id # i
                        THEN view[k].winsA ELSE 0)
  IN  Sum(Len(view))

ListDraws(view, i) ==
  LET RECURSIVE Sum(_)
      Sum(k) == IF k = 0 THEN 0
                ELSE Sum(k - 1)
                     + (IF view[k].policyA._id = i \/ view[k].policyB._id = i
                        THEN view[k].draws ELSE 0)
  IN  Sum(Len(view))

ListCounters(view, i) ==
  [ wins |-> ListWins(view, i), losses |-> ListLosses(view, i),
    draws |-> ListDraws(view, i) ]

\* C16: in every state between two mutations, the wins, losses and draws
\* stored on each policy are the ones that pairings.list derives for that
\* policy from the stored roundResults rows.
C16_CountersAgreeWithList ==
  \A i \in DOMAIN policies :
    CountersIn(policies, i) = ListCounters(list(DB), i)

\* the same agreement in the states that hold no rollout session, no
\* session with a policy twice in its policy_ids, and no session with rows
\* of one round_index that came from several rounds
C16_PlainStores ==
  (/\ \A k \in DOMAIN evalSessions :
        /\ evalSessions[k].session_mode # "rollout"
        /\ \A a, b \in DOMAIN evalSessions[k].policy_ids :
             evalSessions[k].policy_ids[a] = evalSessions[k].policy_ids[b]
               => a = b
   /\ \A k \in DOMAIN submitted :
        \A a, b \in DOMAIN submitted[k].rounds :
          submitted[k].rounds[a].round_index = submitted[k].rounds[b].round_index
            => a = b)
    => C16_CountersAgreeWithList

----------------------------------------------------------------------------
(* C18: what deleteSession removes and what it leaves                      *)

\* C18: after deleteSession(S) the evalSessions row S is gone and no
\* roundResults row and no eloHistory entry refers to S, while the
\* evalSessions rows and the roundResults rows of every other session are
\* the ones from before the call, in their order; submit and addRounds
\* only add roundResults rows after the ones that are stored.
C18_DeletionCascade ==
  /\ (lastOp.op = "deleteSession" /\ lastOp.ok) =>
       /\ SessionExists(prev.evalSessions, lastOp.id)
       /\ ~SessionExists(evalSessions, lastOp.id)
       /\ \A k \in DOMAIN roundResults : roundResults[k].session_id # lastOp.id
       /\ \A k \in DOMAIN eloHistory : eloHistory[k].session_id # lastOp.id
       /\ evalSessions
            = SelectSeq(prev.evalSessions, LAMBDA e : e._id # lastOp.id)
       /\ roundResults
            = SelectSeq(prev.roundResults, LAMBDA r : r.session_id # lastOp.id)
  /\ lastOp.op \in { "submit", "addRounds" } =>
       /\ Len(roundResults) >= Len(prev.roundResults)
       /\ SubSeq(roundResults, 1, Len(prev.roundResults)) = prev.roundResults
       /\ \A k \in DOMAIN roundResults :
            k > Len(prev.roundResults) => roundResults[k].session_id = lastOp.id

\* a session with rows and eloHistory entries was deleted and another
\* session with rows and eloHistory entries is still stored
C18_Witness ==
  /\ lastOp.op = "deleteSession" /\ lastOp.ok
  /\ \E k \in DOMAIN prev.roundResults :
       prev.roundResults[k].session_id = lastOp.id
  /\ \E k \in DOMAIN prev.eloHistory :
       prev.eloHistory[k].session_id = lastOp.id
  /\ roundResults # << >>
  /\ eloHistory # << >>

----------------------------------------------------------------------------
(* C19: the aggregation views                                              *)

Views == { "leaderboard", "list" }

\* the roundResults rows of policy id
RoundsOf(id) == SelectSeq(roundResults, LAMBDA r : r.policy_id = id)

\* C19: policies.leaderboard and pairings.list leave every table as it
\* was, every read of a view since the last mutation returned the same
\* value, and the leaderboard gives a policy without roundResults rows
\* successRate = null and avgSuccessSteps = null, and any other policy the
\* quotient of its successes by a positive number of rows.
C19_ViewsReadOnly ==
  /\ \A view \in Views : \A k \in DOMAIN reads[view] :
       /\ reads[view][k].tables = DB
       /\ reads[view][k].value = reads[view][1].value
  /\ \A k \in DOMAIN reads.leaderboard :
       LET value == reads.leaderboard[k].value
       IN  /\ { value[n]._id : n \in DOMAIN value } = DOMAIN policies
           /\ \A n \in DOMAIN value :
                IF RoundsOf(value[n]._id) = << >>
                THEN /\ value[n].successRate = Null
                     /\ value[n].avgSuccessSteps = Null
                ELSE /\ value[n].successRate
                          = << Successes(RoundsOf(value[n]._id)),
                               Len(RoundsOf(value[n]._id)) >>
                     /\ value[n].avgSuccessSteps # Null
                          => value[n].avgSuccessSteps[1] \in Nat
  /\ \A k \in DOMAIN reads.list :
       \A n \in DOMAIN reads.list[k].value :
         reads.list[k].value[n].totalRounds > 0

\* the leaderboard was read twice in a row and holds a policy without rows
\* and a policy with rows
C19_Witness ==
  /\ Len(reads.leaderboard) = 2
  /\ \E n \in DOMAIN reads.leaderboard[2].value :
       reads.leaderboard[2].value[n].successRate = Null
  /\ \E n \in DOMAIN reads.leaderboard[2].value :
       reads.leaderboard[2].value[n].successRate # Null

----------------------------------------------------------------------------
(* C20: the order of the replay                                            *)

\* the rounds a session was built from, in the order its submit and its
\* addRounds calls gave them, resolved
RoundsOfCall(c) ==
  [ k \in DOMAIN c.rounds |-> ResolvedBy(policies, c.rounds[k].results) ]

\* the same for every session of sessions that is not a rollout
RECURSIVE RoundsSubmitted(_)
RoundsSubmitted(sessions) ==
  IF sessions = << >> THEN << >>
  ELSE (IF Head(sessions).session_mode = "rollout" THEN << >>
        ELSE RoundsOfCall(
               submitted[CHOOSE k \in DOMAIN submitted :
                           submitted[k]._id = Head(sessions)._id]))
       \o RoundsSubmitted(Tail(sessions))

\* C20: the replay of deleteSession compares, session by session, the
\* pairs that submit and addRounds compared and in their order: the rounds
\* in the order they were submitted and the pairs (i, j), i < j, of each
\* round in the order of its results.
C20_ReplayOrder ==
  (lastOp.op = "deleteSession" /\ lastOp.ok) =>
    Compared = PairsOfRounds(RoundsSubmitted(evalSessions))

\* the same for the stores in which no remaining session was given its
\* rounds out of ascending round_index order or a round_index twice
C20_AscendingRounds ==
  (/\ lastOp.op = "deleteSession" /\ lastOp.ok
   /\ \A k \in DOMAIN submitted :
        \A a, b \in DOMAIN submitted[k].rounds :
          a < b => submitted[k].rounds[a].round_index
                     < submitted[k].rounds[b].round_index) =>
    Compared = PairsOfRounds(RoundsSubmitted(evalSessions))

----------------------------------------------------------------------------
(* C21: the replay goes session by session                                 *)

\* the rating the sessions created before session sid have committed for
\* policy i: the elo of its last eloHistory entry of such a session, 1500
\* if it has none
CommittedBefore(i, sid) ==
  LET ks == { k \in DOMAIN eloHistory :
                /\ eloHistory[k].policy_id = i
                /\ eloHistory[k].session_id < sid }
  IN  IF ks = {} THEN SeedElo
      ELSE eloHistory[CHOOSE k \in ks : \A l \in ks : l <= k].elo

\* the rating the first comparison of trace with policy i read for it,
\* -1 if it is in none
RECURSIVE FirstRead(_, _)
FirstRead(trace, i) ==
  IF trace = << >> THEN 0 - 1
  ELSE IF Head(trace).a = i THEN Head(trace).ratingA
  ELSE IF Head(trace).b = i THEN Head(trace).ratingB
  ELSE FirstRead(Tail(trace), i)

\* the number of comparisons the replay makes for session sess
PairsIn(sess) == Len(PairsOfRounds(RoundsStored(DB, << sess >>)))

\* the first eloHistory entry of policy i for session sid has elo r
FirstEntryIs(i, sid, r) ==
  LET ks == { k \in DOMAIN eloHistory :
                /\ eloHistory[k].policy_id = i
                /\ eloHistory[k].session_id = sid }
  IN  /\ ks # {}
      /\ eloHistory[CHOOSE k \in ks : \A l \in ks : k <= l].elo = r

\* trace is, session by session, the comparisons of sessions; in each
\* session the first comparison of a policy reads the rating the earlier
\* sessions committed, and the session commits what its comparisons leave
RECURSIVE StartsFromEarlier(_, _)
StartsFromEarlier(sessions, trace) ==
  IF sessions = << >> THEN trace = << >>
  ELSE /\ PairsIn(Head(sessions)) <= Len(trace)
       /\ \A i \in DOMAIN policies :
            FirstRead(SubSeq(trace, 1, PairsIn(Head(sessions))), i)
              \in { 0 - 1, CommittedBefore(i, Head(sessions)._id) }
       /\ Head(sessions).session_mode # "rollout" =>
            \A i \in Range(Head(sessions).policy_ids) :
              FirstEntryIs(i, Head(sessions)._id,
                           RatingWalk(SubSeq(trace, 1, PairsIn(Head(sessions))),
                                      i, CommittedBefore(i, Head(sessions)._id)))
       /\ StartsFromEarlier(Tail(sessions),
                            SubSeq(trace, PairsIn(Head(sessions)) + 1,
                                   Len(trace)))

\* C21: deleteSession replays the remaining sessions in ascending creation
\* order; every comparison of a session reads ratings that hold what all
\* earlier sessions committed, and the eloHistory entries of a session
\* come before those of every session created after it.
C21_ChronologicalReplay ==
  (lastOp.op = "deleteSession" /\ lastOp.ok) =>
    /\ \A k, l \in DOMAIN evalSessions :
         k < l => evalSessions[k]._id < evalSessions[l]._id
    /\ \A k, l \in DOMAIN eloHistory :
         k < l => eloHistory[k].session_id <= eloHistory[l].session_id
    /\ StartsFromEarlier(evalSessions, lastOp.trace)

\* a deletion left two rated sessions, the later of which compared a
\* policy at a rating the earlier one had moved
C21_Witness ==
  /\ lastOp.op = "deleteSession"
  /\ lastOp.ok
  /\ \E k, l \in DOMAIN eloHistory :
       /\ eloHistory[k].session_id < eloHistory[l].session_id
       /\ eloHistory[k].policy_id = eloHistory[l].policy_id
       /\ eloHistory[k].elo # SeedElo
       /\ eloHistory[l].elo # eloHistory[k].elo
       /\ \E n \in DOMAIN lastOp.trace :
            /\ lastOp.trace[n].a = eloHistory[k].policy_id
            /\ lastOp.trace[n].ratingA = eloHistory[k].elo

----------------------------------------------------------------------------
(* C22: ratings accumulate from comparison to comparison                   *)

\* the rating a call starts from for policy i: the stored one, and 1500
\* after the reset of deleteSession
RatingAtStart(i) ==
  IF lastOp.op = "deleteSession" THEN SeedElo ELSE RatingBefore(i)

\* C22: every comparison of a submit, an addRounds or a replay reads for
\* both policies the rating that the earlier comparisons of the call have
\* left, the first one the stored rating, and the rating that is stored
\* for a policy after the call is the one its last comparison left: the
\* policy is written once, after the loop.
C22_SequentialAccumulation ==
  (lastOp.op \in { "submit", "addRounds", "deleteSession" } /\ lastOp.ok) =>
    \A i \in DOMAIN policies :
      policies[i].elo = RatingWalk(lastOp.trace, i, RatingAtStart(i))

\* no stored session has a policy twice in its policy_ids
DistinctRosters ==
  \A k \in DOMAIN evalSessions :
    \A a, b \in DOMAIN evalSessions[k].policy_ids :
      evalSessions[k].policy_ids[a] = evalSessions[k].policy_ids[b] => a = b

\* the same for the calls that leave no session with a repeated policy
C22_DistinctRosters == DistinctRosters => C22_SequentialAccumulation

----------------------------------------------------------------------------
(* C23: rounds with fewer than two results                                 *)

\* the arguments of the last call without its rounds of 0 or 1 results
WithoutSmallRounds ==
  [ lastOp.args EXCEPT
      !.rounds = SelectSeq(@, LAMBDA r : Len(r.results) >= 2) ]

\* the rows of rows from position k on that share their session and
\* round_index with another row
RECURSIVE PairedRows(_, _)
PairedRows(rows, k) ==
  IF k > Len(rows) THEN << >>
  ELSE (IF \E l \in DOMAIN rows :
             /\ l # k
             /\ rows[l].session_id = rows[k].session_id
             /\ rows[l].round_index = rows[k].round_index
        THEN << rows[k] >> ELSE << >>)
       \o PairedRows(rows, k + 1)

\* the store before the last call without the rows that are alone in
\* their session and round_index
WithoutLoneRows ==
  [ prev EXCEPT !.roundResults = PairedRows(prev.roundResults, 1) ]

\* what the last call does when the rounds of 0 or 1 results are left out
SmallRoundsLeftOut ==
  CASE lastOp.op = "submit" ->
         SubmitHandler(prev, WithoutSmallRounds, lastOp.id)
    [] lastOp.op = "addRounds" ->
         AddRoundsHandler(prev, [ id |-> lastOp.id,
                                  policies |-> lastOp.args.policies,
                                  rounds |-> WithoutSmallRounds.rounds ])
    [] lastOp.op = "deleteSession" ->
         DeleteSessionHandler(WithoutLoneRows, lastOp.id)

\* C23: a round with no result or with one result makes no comparison in
\* submit, in addRounds and in the replay: the call compares the pairs and
\* leaves every policy with the rating and the counters that it would
\* without such rounds, while the rows of such rounds are stored with the
\* others.
C23_SmallRoundsIgnored ==
  (lastOp.op \in { "submit", "addRounds", "deleteSession" } /\ lastOp.ok) =>
    /\ \A out \in { SmallRoundsLeftOut } :
         /\ out.ok
         /\ out.trace = lastOp.trace
         /\ Standing(out.db.policies) = Standing(policies)
    /\ lastOp.op # "deleteSession" =>
         roundResults = prev.roundResults \o RowsGiven
    /\ lastOp.op = "deleteSession" =>
         roundResults
           = SelectSeq(prev.roundResults, LAMBDA r : r.session_id # lastOp.id)

\* a round with a single result was added for a policy whose rating had
\* moved: its row is stored and no comparison was made
C23_Witness ==
  /\ lastOp.op = "addRounds"
  /\ lastOp.ok
  /\ lastOp.id \notin Rollouts(DB)
  /\ lastOp.trace = << >>
  /\ \E k \in DOMAIN roundResults :
       /\ k > Len(prev.roundResults)
       /\ policies[roundResults[k].policy_id].elo # SeedElo

----------------------------------------------------------------------------
(* C24: wins, losses and draws over all policies                           *)

RECURSIVE SumWins(_)
SumWins(pols) ==
  IF pols = << >> THEN 0 ELSE Head(pols).wins + SumWins(Tail(pols))

RECURSIVE SumLosses(_)
SumLosses(pols) ==
  IF pols = << >> THEN 0 ELSE Head(pols).losses + SumLosses(Tail(pols))

RECURSIVE SumDraws(_)
SumDraws(pols) ==
  IF pols = << >> THEN 0 ELSE Head(pols).draws + SumDraws(Tail(pols))

\* C24: in every state whose sessions list each policy once, the wins of
\* all policies add up to the losses of all policies and the draws of all
\* policies add up to an even number.
C24_WinLossBalance ==
  DistinctRosters =>
    /\ SumWins(policies) = SumLosses(policies)
    /\ SumDraws(policies) % 2 = 0

\* wins and draws have been counted by an addRounds on top of a submit
C24_Witness ==
  /\ DistinctRosters
  /\ lastOp.op = "addRounds"
  /\ lastOp.ok
  /\ SumWins(policies) > SumWins(prev.policies)
  /\ SumWins(prev.policies) > 0
  /\ SumDraws(policies) > 0

----------------------------------------------------------------------------
(* C25: a submit extended by addRounds                                     *)

\* right after the submit of a session: addRounds of rounds to it, with
\* the policies of the submit
Extended(rounds) ==
  AddRoundsHandler(DB, [ id |-> lastOp.id, policies |-> lastOp.args.policies,
                         rounds |-> rounds ])

\* the submit made with rounds after its own rounds, in place of the
\* submit that was made
SubmittedAtOnce(rounds) ==
  SubmitHandler(prev, [ lastOp.args EXCEPT !.rounds = @ \o rounds ], lastOp.id)

\* two stores agree on ratings and counters, on the roundResults rows, on
\* num_rounds and policy_ids of session id and on the eloHistory entries
SameStanding(db1, db2, id) ==
  /\ Standing(db1.policies) = Standing(db2.policies)
  /\ db1.roundResults = db2.roundResults
  /\ GetSession(db1.evalSessions, id).num_rounds
       = GetSession(db2.evalSessions, id).num_rounds
  /\ GetSession(db1.evalSessions, id).policy_ids
       = GetSession(db2.evalSessions, id).policy_ids
  /\ db1.eloHistory = db2.eloHistory

\* C25: submit(P, R1) followed at once by addRounds(S, P, R2) leaves the
\* ratings, the counters, the rows, num_rounds and the eloHistory entries
\* that submit(P, R1 followed by R2) leaves.
C25_ExtensionEquivalence ==
  (lastOp.op = "submit" /\ lastOp.ok) =>
    \A r \in AddRoundsCalls :
      \A ext \in { Extended(r.rounds) } :
        \A once \in { SubmittedAtOnce(r.rounds) } :
          /\ ext.ok = once.ok
          /\ ext.ok => SameStanding(ext.db, once.db, lastOp.id)

\* the same for the submits that declare no model_id twice
C25_DistinctRosters ==
  (/\ lastOp.op = "submit" /\ lastOp.ok
   /\ \A a, b \in DOMAIN lastOp.args.policies :
        lastOp.args.policies[a].model_id = lastOp.args.policies[b].model_id
          => a = b) =>
    \A r \in AddRoundsCalls :
      \A ext \in { Extended(r.rounds) } :
        \A once \in { SubmittedAtOnce(r.rounds) } :
          /\ ext.ok = once.ok
          /\ ext.ok => SameStanding(ext.db, once.db, lastOp.id)

----------------------------------------------------------------------------
(* C26: the stored rating and the eloHistory entries                       *)

\* the positions of the eloHistory entries of policy i
EntriesOf(i) == { k \in DOMAIN eloHistory : eloHistory[k].policy_id = i }

\* C26: a policy without eloHistory entry has rating 1500 and counters 0;
\* a policy with entries has the elo of one of them as its rating, and
\* when a call has changed its rating that entry is one the call wrote:
\* the entry of the session of a submit or an addRounds, and the last
\* entry of the policy after the replay of a deleteSession.
C26_RatingHasSnapshot ==
  \A i \in DOMAIN policies :
    /\ EntriesOf(i) = {} =>
         /\ policies[i].elo = SeedElo
         /\ CountersIn(policies, i) = [ wins |-> 0, losses |-> 0, draws |-> 0 ]
    /\ EntriesOf(i) # {} =>
         \E k \in EntriesOf(i) : eloHistory[k].elo = policies[i].elo
    /\ (/\ lastOp.op \in { "submit", "addRounds" }
        /\ lastOp.ok
        /\ policies[i].elo # RatingBefore(i)) =>
         \E k \in EntriesOf(i) :
           /\ eloHistory[k].session_id = lastOp.id
           /\ eloHistory[k].elo = policies[i].elo
    /\ (lastOp.op = "deleteSession" /\ lastOp.ok /\ EntriesOf(i) # {}) =>
         eloHistory[CHOOSE k \in EntriesOf(i) : \A l \in EntriesOf(i) : l <= k].elo
           = policies[i].elo

\* an addRounds changed the rating of a policy that has an entry of a
\* later session: the entry of the extended session holds the new rating
C26_Witness ==
  /\ lastOp.op = "addRounds"
  /\ lastOp.ok
  /\ \E i \in DOMAIN policies :
       /\ policies[i].elo # RatingBefore(i)
       /\ \E k \in EntriesOf(i) : eloHistory[k].session_id > lastOp.id

----------------------------------------------------------------------------
(* C27: references between the tables                                      *)

\* C27: every roundResults row and every eloHistory entry names a stored
\* session and a stored policy, and the policy of a roundResults row is in
\* the policy_ids of the row's session.
C27_ReferentialIntegrity ==
  /\ \A k \in DOMAIN roundResults :
       /\ SessionExists(evalSessions, roundResults[k].session_id)
       /\ roundResults[k].policy_id \in DOMAIN policies
       /\ roundResults[k].policy_id
            \in Range(GetSession(evalSessions,
                                 roundResults[k].session_id).policy_ids)
  /\ \A k \in DOMAIN eloHistory :
       /\ SessionExists(evalSessions, eloHistory[k].session_id)
       /\ eloHistory[k].policy_id \in DOMAIN policies

\* an addRounds stored a row of a policy that was not in the session
C27_Witness ==
  /\ lastOp.op = "addRounds"
  /\ lastOp.ok
  /\ eloHistory # << >>
  /\ \E k \in DOMAIN roundResults :
       /\ roundResults[k].session_id = lastOp.id
       /\ roundResults[k].policy_id
            \notin Range(GetSession(prev.evalSessions, lastOp.id).policy_ids)

----------------------------------------------------------------------------
(* C28: the order of two deletions                                         *)

\* how often each (policy, session, elo) is in the eloHistory table
HistoryContent(history) ==
  LET triple(h) == << h.policy_id, h.session_id, h.elo >>
  IN  [ t \in { triple(history[k]) : k \in DOMAIN history } |->
          Cardinality({ k \in DOMAIN history : triple(history[k]) = t }) ]

\* the store after deleteSession(id) on db
AfterDelete(db, id) == Mutation(db, DeleteSessionHandler(db, id))

\* ratings, counters, rows and eloHistory content of two stores agree
SameOutcome(db1, db2) ==
  /\ Standing(db1.policies) = Standing(db2.policies)
  /\ db1.roundResults = db2.roundResults
  /\ db1.evalSessions = db2.evalSessions
  /\ HistoryContent(db1.eloHistory) = HistoryContent(db2.eloHistory)

\* db with other ratings, counters and eloHistory entries: those the store
\* had before the last call, for the policies it had then
WithEarlierRatings(db) ==
  [ db EXCEPT
      !.policies = [ i \in DOMAIN db.policies |->
                       IF i \in DOMAIN prev.policies
                       THEN [ db.policies[i] EXCEPT
                                !.elo = prev.policies[i].elo,
                                !.wins = prev.policies[i].wins,
                                !.losses = prev.policies[i].losses,
                                !.draws = prev.policies[i].draws ]
                       ELSE db.policies[i] ],
      !.eloHistory = prev.eloHistory ]

SessionIds == { evalSessions[k]._id : k \in DOMAIN evalSessions }

\* C28: deleting two sessions in either order leaves the same ratings,
\* counters, rows and (policy, session, elo) content of eloHistory, and what
\* a deletion leaves does not depend on the ratings, counters and eloHistory
\* entries stored before it.
C28_DeletionsCommute ==
  /\ \A s1, s2 \in SessionIds :
       s1 < s2 =>
         \A first \in { AfterDelete(DB, s1) } :
           \A second \in { AfterDelete(DB, s2) } :
             \A firstSecond \in { AfterDelete(first, s2) } :
               \A secondFirst \in { AfterDelete(second, s1) } :
                 SameOutcome(firstSecond, secondFirst)
  /\ \A s \in SessionIds :
       \A here \in { AfterDelete(DB, s) } :
         \A there \in { AfterDelete(WithEarlierRatings(DB), s) } :
           SameOutcome(here, there)

\* three sessions are stored, all of them rated, and the last call changed
\* a rating: two deletions leave a session that is replayed
C28_Witness ==
  /\ Len(evalSessions) = 3
  /\ \A k \in DOMAIN evalSessions :
       /\ evalSessions[k].session_mode # "rollout"
       /\ \E r \in DOMAIN roundResults :
            roundResults[r].session_id = evalSessions[k]._id
  /\ Standing(policies) # Standing(WithEarlierRatings(DB).policies)
  /\ \E i \in DOMAIN policies : policies[i].elo # SeedElo

----------------------------------------------------------------------------
(* C29: what submit and addRounds leave alone                              *)

\* the model_ids the last call declared
DeclaredModels ==
  { lastOp.args.policies[k].model_id : k \in DOMAIN lastOp.args.policies }

\* the model_ids with a result in the rounds of the last call
ModelsWithResult ==
  UNION { { lastOp.args.rounds[r].results[k].model_id :
              k \in DOMAIN lastOp.args.rounds[r].results } :
            r \in DOMAIN lastOp.args.rounds }

\* rating and counters of policy i are those before the last call
Untouched(i) == Standing(policies)[i] = Standing(prev.policies)[i]

\* the eloHistory entries of policy i, in table order
EntriesOfPolicy(history, i) ==
  SelectSeq(history, LAMBDA h : h.policy_id = i)

\* the eloHistory entries of the sessions other than id, in table order
EntriesOfOthers(history, id) ==
  SelectSeq(history, LAMBDA h : h.session_id # id)

\* C29: a submit leaves rating and counters of every policy it did not
\* declare; an addRounds leaves rating, counters and eloHistory entries of
\* every policy without a result in its rounds; both leave the eloHistory
\* entries of the other sessions.
C29_IngestionFrame ==
  /\ (lastOp.op = "submit" /\ lastOp.ok) =>
       \A i \in DOMAIN prev.policies :
         policies[i].model_id \notin DeclaredModels => Untouched(i)
  /\ (lastOp.op = "addRounds" /\ lastOp.ok) =>
       \A i \in DOMAIN prev.policies :
         policies[i].model_id \notin ModelsWithResult =>
           /\ Untouched(i)
           /\ EntriesOfPolicy(eloHistory, i)
                = EntriesOfPolicy(prev.eloHistory, i)
  /\ (lastOp.op \in { "submit", "addRounds" } /\ lastOp.ok) =>
       EntriesOfOthers(eloHistory, lastOp.id)
         = EntriesOfOthers(prev.eloHistory, lastOp.id)

\* an addRounds changed a rating in a session that has a rated policy
\* without a result in the new rounds, while another session has entries of
\* the policies with a result
C29_Witness ==
  /\ lastOp.op = "addRounds"
  /\ lastOp.ok
  /\ \E i \in DOMAIN prev.policies : policies[i].elo # prev.policies[i].elo
  /\ \E i \in Range(GetSession(prev.evalSessions, lastOp.id).policy_ids) :
       /\ policies[i].model_id \notin ModelsWithResult
       /\ policies[i].elo # SeedElo
       /\ EntriesOfPolicy(prev.eloHistory, i) # << >>
  /\ \E k \in DOMAIN prev.eloHistory :
       /\ prev.eloHistory[k].session_id # lastOp.id
       /\ policies[prev.eloHistory[k].policy_id].model_id \in ModelsWithResult

\* a submit changed ratings while a rated policy it did not declare is stored
C29_SubmitWitness ==
  /\ lastOp.op = "submit"
  /\ lastOp.ok
  /\ \E i \in DOMAIN prev.policies : policies[i].elo # prev.policies[i].elo
  /\ \E i \in DOMAIN prev.policies :
       /\ policies[i].model_id \notin DeclaredModels
       /\ policies[i].elo # SeedElo

----------------------------------------------------------------------------
(* C30: model_id as the key of the policies table                          *)

\* the declared positions of the last call that repeat an earlier model_id
RepeatedDeclarations ==
  { b \in DOMAIN lastOp.args.policies :
      \E a \in 1..(b - 1) :
        lastOp.args.policies[a].model_id = lastOp.args.policies[b].model_id }

\* C30: no two policies have the same model_id, and every policy stored
\* before the last call is stored under the same id with the same model_id.
C30_ModelIdIsKey ==
  /\ \A i, j \in DOMAIN policies :
       policies[i].model_id = policies[j].model_id => i = j
  /\ \A i \in DOMAIN prev.policies :
       /\ i \in DOMAIN policies
       /\ policies[i].model_id = prev.policies[i].model_id

\* a call that declared a model_id twice registered it, next to policies
\* registered before and declared again
C30_Witness ==
  /\ lastOp.op \in { "submit", "addRounds" }
  /\ lastOp.ok
  /\ \E b \in RepeatedDeclarations :
       /\ PolicyByModelId(prev.policies, lastOp.args.policies[b].model_id) = {}
       /\ PolicyByModelId(policies, lastOp.args.policies[b].model_id) # {}
  /\ \E k \in DOMAIN lastOp.args.policies :
       PolicyByModelId(prev.policies, lastOp.args.policies[k].model_id) # {}

====
